---- MODULE Spec2Model ----
(***************************************************************************)
(* State-machine model of the FS25 farming web application (src/app.py)    *)
(* and of the schema its three database scripts create (src/database).     *)
(*                                                                         *)
(* The state is the content of the SQLite tables; every action is one      *)
(* HTTP request handled from get_db_connection() to the response, with     *)
(* all its statements and its commit (or the rollback that closing an      *)
(* uncommitted connection performs).                                       *)
(*                                                                         *)
(* Numbers: the code computes in binary floating point.  The model keeps   *)
(* sums, differences and products as integers and quotients as reduced     *)
(* fractions [num, den], i.e. it models the arithmetic over the rationals  *)
(* and abstracts from rounding.                                            *)
(***************************************************************************)
EXTENDS Integers, Sequences, FiniteSets, TLC

VARIABLES
    fields,            \* table fields: the set of field_id values (PRIMARY KEY)
    crop_seasons,      \* table crop_seasons: set of rows
    field_operations,  \* table field_operations: set of rows
    weather_events,    \* table weather_events: set of rows
    sqlite_sequence,   \* last AUTOINCREMENT id handed out in each table with deletes
    planting_records,  \* table planting_records: row i has planting_id = i
    field_maintenance, \* table field_maintenance
    harvest_records,   \* table harvest_records
    crop_storage,      \* table crop_storage: crop_name (UNIQUE) -> row
    price_history,     \* table price_history: sequence of rows in insertion order
    sale_locations,    \* table sale_locations: set of rows
    response,          \* the notice / JSON result of the last request
    connection,        \* what the last request did with its database connection
    requests,          \* harvest submissions handled statement by statement
    transaction,       \* the open write transaction of the database, if any
    orphaned           \* history: ids of the plantings whose field delete_field removed

fieldTables == <<crop_seasons, field_operations, weather_events, sqlite_sequence>>
plantingTables == <<planting_records, field_maintenance, harvest_records>>
storageTables == <<crop_storage, price_history>>
requestVars == <<requests, transaction, orphaned>>
vars == <<fields, crop_seasons, field_operations, weather_events, sqlite_sequence,
          planting_records, field_maintenance, harvest_records,
          crop_storage, price_history, sale_locations, response,
          connection, requests, transaction, orphaned>>

(***************************************************************************)
(* Values                                                                  *)
(***************************************************************************)
\* SQL NULL / Python None
NULL == "<NULL>"
\* a key that the submitted form or JSON body does not carry
ABSENT == "<absent>"

\* float(s) for the numerals the model submits; every other string raises
\* ValueError (the empty string included), an absent JSON value TypeError.
NumeralValue ==
    [s \in {"0", "1", "2", "3", "4", "5", "10", "30", "50", "100", "180",
            "185", "200", "220", "250", "1000", "1200", "2000", "2500"} |->
        CASE s = "0" -> 0 [] s = "1" -> 1 [] s = "2" -> 2 [] s = "3" -> 3
          [] s = "4" -> 4 [] s = "5" -> 5 [] s = "10" -> 10 [] s = "30" -> 30
          [] s = "50" -> 50 [] s = "100" -> 100 [] s = "180" -> 180
          [] s = "185" -> 185 [] s = "200" -> 200 [] s = "220" -> 220
          [] s = "250" -> 250 [] s = "1000" -> 1000 [] s = "1200" -> 1200
          [] s = "2000" -> 2000 [] s = "2500" -> 2500]

Parses(s) == s \in DOMAIN NumeralValue
Float(s) == NumeralValue[s]

\* float(form.get(key, 0)) succeeds: the key is absent or a numeral
ParsesOrAbsent(form, keys) == \A k \in keys : form[k] = ABSENT \/ Parses(form[k])

\* request.form.get(key, default): the default only when the key is absent
FormGet(form, key, default) == IF form[key] = ABSENT THEN default ELSE form[key]

\* reduced fraction a / b, b > 0
RECURSIVE GCD(_, _)
GCD(a, b) == IF b = 0 THEN a ELSE GCD(b, a % b)
Abs(a) == IF a < 0 THEN -a ELSE a
Quotient(a, b) ==
    LET g == GCD(Abs(a), b) IN [num |-> a \div g, den |-> b \div g]
\* the int 0 that the zero guards produce
Zero == [num |-> 0, den |-> 1]
TimesInt(q, k) == Quotient(q.num * k, q.den)

(***************************************************************************)
(* Schema and initial content                                              *)
(***************************************************************************)
\* date of the database setup and the date(s) on which requests arrive
SetupDate == "2025-01-01"
RequestDates == {"2025-06-01"}

\* rows that initialize_crop_storage inserts (two of its crops are modelled)
crop_storage_init ==
    [c \in {"Wheat", "Corn"} |->
        [quantity_stored |-> 0,
         storage_capacity |-> IF c = "Wheat" THEN 2000 ELSE 2500,
         current_market_price |-> IF c = "Wheat" THEN 220 ELSE 185,
         sale_location |-> "Grain Elevator",
         notes |-> NULL,
         last_price_update |-> SetupDate,
         updated_date |-> SetupDate]]

\* rows that initialize_crop_storage inserts into sale_locations (the first of
\* its locations is modelled); location_name is NOT NULL but not UNIQUE there
sale_locations_init == {[location_id |-> 1, location_name |-> "Grain Elevator"]}

\* concurrent harvest submissions that are followed statement by statement
RequestIds == {1, 2}
\* no connection holds the write lock of the database file
NoTransaction == [writer |-> 0]

\* fields that create_database inserts (two of its sample fields are modelled)
fields_init == {"F001", "F002"}

Init ==
    /\ fields = fields_init
    /\ crop_seasons = {}
    /\ field_operations = {}
    /\ weather_events = {}
    /\ sqlite_sequence =
          [t \in {"crop_seasons", "field_operations", "weather_events", "sale_locations"} |->
              IF t = "sale_locations" THEN Cardinality(sale_locations_init) ELSE 0]
    /\ sale_locations = sale_locations_init
    /\ planting_records = <<>>
    /\ field_maintenance = <<>>
    /\ harvest_records = <<>>
    /\ crop_storage = crop_storage_init
    /\ price_history = <<>>
    /\ response = "none"
    /\ connection = "none"
    /\ requests = [r \in RequestIds |-> [pc |-> "idle"]]
    /\ transaction = NoTransaction
    /\ orphaned = {}

(***************************************************************************)
(* Field, crop season, weather and operation routes                        *)
(* The application never issues PRAGMA foreign_keys, so SQLite enforces no *)
(* FOREIGN KEY clause of the schema on its connections.                    *)
(***************************************************************************)
\* (mutant) the submitted id is trimmed but not upper-cased
field_id_as_typed == [s \in {"F001", "F002", "F003", " f003 ", "f001", "", "  "} |-> CASE s \in {"", "  "} -> "" [] s = " f003 " -> "f003" [] OTHER -> s]

\* request.form.get('field_id', '').strip().upper() for the ids submitted
field_id_normal ==
    [s \in {"F001", "F002", "F003", " f003 ", "f001", "", "  "} |->
        CASE s \in {"F001", "f001"} -> "F001"
          [] s = "F002" -> "F002"
          [] s \in {"F003", " f003 "} -> "F003"
          [] OTHER -> ""]

\* POST /fields/add
add_field(form) ==
    LET field_id == field_id_normal[form.field_id]
    IN IF field_id = "" THEN
            /\ connection' = "none"
            /\ response' = "Field ID is required!"
            /\ UNCHANGED <<requestVars, sale_locations, fields, fieldTables, plantingTables, storageTables>>
       ELSE IF form.field_name = "" THEN
            /\ connection' = "none"
            /\ response' = "Field name is required!"
            /\ UNCHANGED <<requestVars, sale_locations, fields, fieldTables, plantingTables, storageTables>>
       ELSE IF form.size_hectares = "" THEN
            /\ connection' = "none"
            /\ response' = "Field size is required!"
            /\ UNCHANGED <<requestVars, sale_locations, fields, fieldTables, plantingTables, storageTables>>
       ELSE IF ~Parses(form.size_hectares) THEN
            /\ connection' = "none"
            /\ response' = "Invalid size value!"
            /\ UNCHANGED <<requestVars, sale_locations, fields, fieldTables, plantingTables, storageTables>>
       ELSE IF field_id \in fields THEN        \* sqlite3.IntegrityError
            /\ connection' = "open"
            /\ response' = "Field ID already exists!"
            /\ UNCHANGED <<requestVars, sale_locations, fields, fieldTables, plantingTables, storageTables>>
       ELSE /\ fields' = fields \cup {field_id}
            /\ connection' = "closed"
            /\ response' = "Field added successfully!"
            /\ UNCHANGED <<requestVars, sale_locations, fieldTables, plantingTables, storageTables>>

\* (mutant) the DELETE leaves the table as it is
DeleteNothing(rows, field_id) == rows

\* DELETE FROM <table> WHERE field_id = ?
DeleteWhereField(rows, field_id) == {r \in rows : r.field_id # field_id}

\* POST /fields/<field_id>/delete
delete_field(field_id) ==
    IF field_id \notin fields
    THEN /\ connection' = "open"
         /\ response' = "Field not found!"
         /\ UNCHANGED <<requestVars, sale_locations, fields, fieldTables, plantingTables, storageTables>>
    ELSE /\ crop_seasons' = DeleteWhereField(crop_seasons, field_id)
         /\ field_operations' = DeleteWhereField(field_operations, field_id)
         /\ weather_events' = DeleteWhereField(weather_events, field_id)
         /\ fields' = fields \ {field_id}
         /\ orphaned' = orphaned \cup {i \in 1..Len(planting_records) :
                                          planting_records[i].field_id = field_id}
         /\ connection' = "closed"
         /\ response' = "Field deleted successfully!"
         /\ UNCHANGED <<requests, transaction, sale_locations, sqlite_sequence, plantingTables, storageTables>>

\* POST /fields/delete-all-sample-data : the schema of src/database has no
\* table crop_varieties, so the fifth DELETE raises OperationalError and the
\* close of the uncommitted connection rolls the first four back
delete_all_sample_data ==
    /\ connection' = "closed"
    /\ response' = "Error deleting sample data"
    /\ UNCHANGED <<requestVars, sale_locations, fields, fieldTables, plantingTables, storageTables>>

\* INSERT into one of the AUTOINCREMENT tables
NextId(table) == sqlite_sequence[table] + 1

\* POST /crops/add
add_crop_season(form) ==
    IF form.field_id = ABSENT \/ ~Parses(form.crop_year)
    THEN /\ connection' = "closed"
         /\ response' = "Error adding crop season"
         /\ UNCHANGED <<requestVars, sale_locations, fields, fieldTables, plantingTables, storageTables>>
    ELSE /\ crop_seasons' = crop_seasons \cup
              {[season_id |-> NextId("crop_seasons"), field_id |-> form.field_id,
                harvest_date |-> NULL]}
         /\ sqlite_sequence' =
              [sqlite_sequence EXCEPT !["crop_seasons"] = NextId("crop_seasons")]
         /\ connection' = "closed"
         /\ response' = "season added successfully!"
         /\ UNCHANGED <<requestVars, sale_locations, fields, field_operations, weather_events, plantingTables,
                        storageTables>>

\* POST /crops/<season_id>/harvest
record_harvest(season_id, form) ==
    IF ~\E r \in crop_seasons : r.season_id = season_id /\ r.field_id \in fields
    THEN /\ connection' = "closed"
         /\ response' = "Crop season not found!"
         /\ UNCHANGED <<requestVars, sale_locations, fields, fieldTables, plantingTables, storageTables>>
    ELSE IF form.harvest_date = ABSENT \/ ~Parses(form.yield_tonnes_per_ha)
    THEN /\ connection' = "closed"
         /\ response' = "Error recording harvest"
         /\ UNCHANGED <<requestVars, sale_locations, fields, fieldTables, plantingTables, storageTables>>
    ELSE /\ crop_seasons' =
              {IF r.season_id = season_id
               THEN [r EXCEPT !.harvest_date = form.harvest_date] ELSE r :
                   r \in crop_seasons}
         /\ connection' = "closed"
         /\ response' = "Harvest recorded successfully!"
         /\ UNCHANGED <<requestVars, sale_locations, fields, field_operations, weather_events, sqlite_sequence,
                        plantingTables, storageTables>>

\* POST /weather/add
add_weather_event(form) ==
    IF form.field_id = ABSENT \/ ~ParsesOrAbsent(form, {"damage_percent"})
    THEN /\ connection' = "closed"
         /\ response' = "Error logging weather event"
         /\ UNCHANGED <<requestVars, sale_locations, fields, fieldTables, plantingTables, storageTables>>
    ELSE /\ weather_events' = weather_events \cup
              {[event_id |-> NextId("weather_events"), field_id |-> form.field_id]}
         /\ sqlite_sequence' =
              [sqlite_sequence EXCEPT !["weather_events"] = NextId("weather_events")]
         /\ connection' = "closed"
         /\ response' = "event logged successfully!"
         /\ UNCHANGED <<requestVars, sale_locations, fields, crop_seasons, field_operations, plantingTables,
                        storageTables>>

\* POST /operations/add
add_operation(form) ==
    IF form.field_id = ABSENT \/ (form.hours_worked # "" /\ ~ParsesOrAbsent(form, {"hours_worked"}))
    THEN /\ connection' = "closed"
         /\ response' = "Error logging operation"
         /\ UNCHANGED <<requestVars, sale_locations, fields, fieldTables, plantingTables, storageTables>>
    ELSE /\ field_operations' = field_operations \cup
              {[operation_id |-> NextId("field_operations"),
                field_id |-> form.field_id]}
         /\ sqlite_sequence' =
              [sqlite_sequence EXCEPT !["field_operations"] = NextId("field_operations")]
         /\ connection' = "closed"
         /\ response' = "operation logged successfully!"
         /\ UNCHANGED <<requestVars, sale_locations, fields, crop_seasons, weather_events, plantingTables,
                        storageTables>>

\* POST /operations/<operation_id>/edit
edit_operation(operation_id, form) ==
    IF ~\E r \in field_operations : r.operation_id = operation_id /\ r.field_id \in fields
    THEN /\ connection' = "closed"
         /\ response' = "Operation not found!"
         /\ UNCHANGED <<requestVars, sale_locations, fields, fieldTables, plantingTables, storageTables>>
    ELSE IF form.field_id = ABSENT \/ (form.hours_worked # "" /\ ~ParsesOrAbsent(form, {"hours_worked"}))
    THEN /\ connection' = "closed"
         /\ response' = "Error updating operation"
         /\ UNCHANGED <<requestVars, sale_locations, fields, fieldTables, plantingTables, storageTables>>
    ELSE /\ field_operations' =
              {IF r.operation_id = operation_id
               THEN [r EXCEPT !.field_id = form.field_id] ELSE r :
                   r \in field_operations}
         /\ connection' = "closed"
         /\ response' = "Operation updated successfully!"
         /\ UNCHANGED <<requestVars, sale_locations, fields, crop_seasons, weather_events, sqlite_sequence,
                        plantingTables, storageTables>>

\* POST /operations/<operation_id>/delete
delete_operation(operation_id) ==
    /\ field_operations' = {r \in field_operations : r.operation_id # operation_id}
    /\ connection' = "closed"
    /\ response' = "Operation deleted successfully!"
    /\ UNCHANGED <<requestVars, sale_locations, fields, crop_seasons, weather_events, sqlite_sequence,
                   plantingTables, storageTables>>

(***************************************************************************)
(* Crop storage routes                                                     *)
(***************************************************************************)
\* (mutant) the allow-list lets one more column name through
allowed_fields_wider ==
    {"quantity_stored", "storage_capacity", "current_market_price",
     "sale_location", "notes", "storage_id"}

allowed_fields ==
    {"quantity_stored", "storage_capacity", "current_market_price",
     "sale_location", "notes"}
numeric_fields == {"quantity_stored", "storage_capacity", "current_market_price"}

\* UPDATE crop_storage SET <cols> WHERE crop_name = ?  (no row: no effect)
UpdateStorageRow(storage, crop_name, cols) ==
    IF crop_name \in DOMAIN storage
    THEN [storage EXCEPT ![crop_name] =
            [k \in DOMAIN @ |-> IF k \in DOMAIN cols THEN cols[k] ELSE @[k]]]
    ELSE storage

\* (mutant) the price is compared after the UPDATE has been applied
PriceChangedAfterUpdate(storage, crop_name, price) ==
    /\ crop_name \in DOMAIN storage
    /\ UpdateStorageRow(storage, crop_name,
            [current_market_price |-> price])[crop_name].current_market_price # price

\* the old_price test of both price editors: a row exists and its price differs
PriceChanged(storage, crop_name, price) ==
    /\ crop_name \in DOMAIN storage
    /\ storage[crop_name].current_market_price # price

\* POST /storage/update-field
update_storage_field(crop_name, field_name, value, now) ==
    IF field_name \notin allowed_fields
    THEN /\ connection' = "none"
         /\ response' = "Invalid field"
         /\ UNCHANGED <<requestVars, sale_locations, fields, fieldTables, plantingTables, storageTables>>
    ELSE IF field_name \in numeric_fields /\ ~Parses(value)
    THEN \* ValueError: 'Invalid numeric value'; TypeError: the generic failure
         /\ connection' = "open"
         /\ response' = IF value = ABSENT THEN "error" ELSE "Invalid numeric value"
         /\ UNCHANGED <<requestVars, sale_locations, fields, fieldTables, plantingTables, storageTables>>
    ELSE LET new_value == IF field_name \in numeric_fields THEN Float(value)
                          ELSE IF value = ABSENT THEN NULL ELSE value
             logged == /\ field_name = "current_market_price"
                       /\ PriceChanged(crop_storage, crop_name, new_value)
         IN /\ price_history' =
                  IF logged
                  THEN Append(price_history,
                              [crop_name |-> crop_name, price |-> new_value,
                               sale_location |-> NULL, price_date |-> now])
                  ELSE price_history
            /\ crop_storage' =
                  UpdateStorageRow(crop_storage, crop_name,
                      [k \in {field_name, "updated_date"} |->
                          IF k = field_name THEN new_value ELSE now])
            /\ connection' = "closed"
            /\ response' = "success"
            /\ UNCHANGED <<requestVars, sale_locations, fields, fieldTables, plantingTables>>

\* float(form.get(key, default)) over the three numeric inputs of the edit form
DefaultCapacity == 1000
EditFormParses(form) ==
    /\ form.quantity_stored = ABSENT \/ Parses(form.quantity_stored)
    /\ form.storage_capacity = ABSENT \/ Parses(form.storage_capacity)
    /\ form.current_market_price = ABSENT \/ Parses(form.current_market_price)
FloatOr(form, key, default) ==
    IF form[key] = ABSENT THEN default ELSE Float(form[key])

\* POST /storage/edit/<crop_name>
edit_crop_storage(crop_name, form, now) ==
    IF ~EditFormParses(form)
    THEN \* the exception is flashed, then the edit page is rendered again
         /\ connection' = "closed"
         /\ response' = IF crop_name \in DOMAIN crop_storage
                        THEN "Error updating" ELSE "Crop not found!"
         /\ UNCHANGED <<requestVars, sale_locations, fields, fieldTables, plantingTables, storageTables>>
    ELSE LET quantity == FloatOr(form, "quantity_stored", 0)
             capacity == FloatOr(form, "storage_capacity", DefaultCapacity)
             price == FloatOr(form, "current_market_price", 0)
             location == FormGet(form, "sale_location", "")
             notes == FormGet(form, "notes", "")
             logged == PriceChanged(crop_storage, crop_name, price)
         IN /\ price_history' =
                  IF logged
                  THEN Append(price_history,
                              [crop_name |-> crop_name, price |-> price,
                               sale_location |-> location, price_date |-> now])
                  ELSE price_history
            /\ crop_storage' =
                  UpdateStorageRow(crop_storage, crop_name,
                      [quantity_stored |-> quantity, storage_capacity |-> capacity,
                       current_market_price |-> price, sale_location |-> location,
                       notes |-> notes, last_price_update |-> now,
                       updated_date |-> now])
            /\ connection' = "closed"
            /\ response' = "storage updated successfully"
            /\ UNCHANGED <<requestVars, sale_locations, fields, fieldTables, plantingTables>>

\* POST /storage/update-quantity
update_quantity(crop_name, quantity, now) ==
    IF quantity # ABSENT /\ ~Parses(quantity)
    THEN /\ connection' = "none"
         /\ response' = "error"
         /\ UNCHANGED <<requestVars, sale_locations, fields, fieldTables, plantingTables, storageTables>>
    ELSE /\ crop_storage' =
              UpdateStorageRow(crop_storage, crop_name,
                  [quantity_stored |-> IF quantity = ABSENT THEN 0 ELSE Float(quantity),
                   updated_date |-> now])
         /\ connection' = "closed"
         /\ response' = "success"
         /\ UNCHANGED <<requestVars, sale_locations, fields, fieldTables, plantingTables, price_history>>

(***************************************************************************)
(* Sale location routes                                                    *)
(***************************************************************************)
\* request.form.get('location_name', '').strip() for the names submitted
location_name_strip ==
    [s \in {"Grain Elevator", "Oil Mill", " Oil Mill ", "", "  "} |->
        CASE s = "Grain Elevator" -> "Grain Elevator"
          [] s \in {"Oil Mill", " Oil Mill "} -> "Oil Mill"
          [] OTHER -> ""]

\* SELECT location_name FROM sale_locations WHERE location_id = ?
LocationRows(location_id) == {r \in sale_locations : r.location_id = location_id}

\* POST /storage/locations/add ; the table of the setup script has no UNIQUE
\* constraint, so the INSERT never raises IntegrityError
add_location(form) ==
    LET location_name == location_name_strip[form.location_name]
    IN IF location_name = ""
       THEN /\ connection' = "none"
            /\ response' = "Location name is required!"
            /\ UNCHANGED <<requestVars, sale_locations, fields, fieldTables, plantingTables,
                           storageTables>>
       ELSE /\ sale_locations' = sale_locations \cup
                  {[location_id |-> NextId("sale_locations"),
                    location_name |-> location_name]}
            /\ sqlite_sequence' =
                  [sqlite_sequence EXCEPT !["sale_locations"] = NextId("sale_locations")]
            /\ connection' = "closed"
            /\ response' = "Location added successfully!"
            /\ UNCHANGED <<requestVars, fields, crop_seasons, field_operations, weather_events,
                           plantingTables, storageTables>>

\* (mutant) a renamed location is not carried over to the crops that use it
RenameSaleLocationNowhere(storage, old_name, new_name) == storage

\* UPDATE crop_storage SET sale_location = ? WHERE sale_location = ?
RenameSaleLocation(storage, old_name, new_name) ==
    [c \in DOMAIN storage |->
        IF storage[c].sale_location = old_name
        THEN [storage[c] EXCEPT !.sale_location = new_name] ELSE storage[c]]

\* POST /storage/locations/<location_id>/edit
edit_location(location_id, form) ==
    LET location_name == location_name_strip[form.location_name]
    IN IF location_name = ""
       THEN /\ connection' = "none"
            /\ response' = "Location name is required!"
            /\ UNCHANGED <<requestVars, sale_locations, fields, fieldTables, plantingTables,
                           storageTables>>
       ELSE IF LocationRows(location_id) = {}
       THEN /\ connection' = "closed"
            /\ response' = "Location not found!"
            /\ UNCHANGED <<requestVars, sale_locations, fields, fieldTables, plantingTables,
                           storageTables>>
       ELSE LET old_location == CHOOSE r \in LocationRows(location_id) : TRUE
            IN /\ sale_locations' =
                     (sale_locations \ {old_location}) \cup
                     {[old_location EXCEPT !.location_name = location_name]}
               /\ crop_storage' =
                     IF old_location.location_name # location_name
                     THEN RenameSaleLocation(crop_storage,
                              old_location.location_name, location_name)
                     ELSE crop_storage
               /\ connection' = "closed"
               /\ response' = "Location updated successfully!"
               /\ UNCHANGED <<requestVars, fields, fieldTables, plantingTables, price_history>>

\* POST /storage/locations/<location_id>/delete
delete_location(location_id) ==
    IF LocationRows(location_id) = {}
    THEN /\ connection' = "closed"
         /\ response' = "Location not found!"
         /\ UNCHANGED <<requestVars, sale_locations, fields, fieldTables, plantingTables,
                        storageTables>>
    ELSE LET location == CHOOSE r \in LocationRows(location_id) : TRUE
         IN IF \E c \in DOMAIN crop_storage :
                   crop_storage[c].sale_location = location.location_name
            THEN /\ connection' = "closed"
                 /\ response' = "Cannot delete - it is being used"
                 /\ UNCHANGED <<requestVars, sale_locations, fields, fieldTables, plantingTables,
                                storageTables>>
            ELSE /\ sale_locations' = sale_locations \ {location}
                 /\ connection' = "closed"
                 /\ response' = "Location deleted successfully!"
                 /\ UNCHANGED <<requestVars, fields, fieldTables, plantingTables, storageTables>>

\* POST /storage/locations/bulk-add : INSERT OR IGNORE of the default
\* locations (the modelled one); without a UNIQUE constraint nothing is
\* ignored.  conn.lastrowid raises AttributeError after each INSERT, which
\* the bare except swallows, so the count flashed stays 0.
bulk_add_locations ==
    /\ sale_locations' = sale_locations \cup
          {[location_id |-> NextId("sale_locations"),
            location_name |-> "Grain Elevator"]}
    /\ sqlite_sequence' =
          [sqlite_sequence EXCEPT !["sale_locations"] = NextId("sale_locations")]
    /\ connection' = "closed"
    /\ response' = "Added 0 default locations!"
    /\ UNCHANGED <<requestVars, fields, crop_seasons, field_operations, weather_events,
                   plantingTables, storageTables>>

(***************************************************************************)
(* Planting, maintenance and harvest routes                                *)
(***************************************************************************)
planting_cost_keys ==
    {"seed_cost", "fertilizer_cost", "lime_cost", "labor_cost", "equipment_cost",
     "fuel_cost", "other_costs"}
maintenance_cost_keys == {"labor_cost", "equipment_cost", "material_cost", "fuel_cost"}
harvest_cost_keys ==
    {"harvest_labor_cost", "harvest_equipment_cost", "harvest_fuel_cost",
     "transport_cost", "drying_cost", "storage_cost", "other_harvest_costs"}

\* a + b + ... over the named cost inputs of a parsed form
RECURSIVE SumOver(_, _)
SumOver(costs, keys) ==
    IF keys = {} THEN 0
    ELSE LET k == CHOOSE x \in keys : TRUE
         IN costs[k] + SumOver(costs, keys \ {k})
ParsedCosts(form, keys) == [k \in keys |-> FloatOr(form, k, 0)]

\* (mutant) the planting total is reported as the cost per hectare
cost_per_hectare_undivided(total, area_ha) ==
    IF area_ha > 0 THEN Quotient(total, 1) ELSE Zero

\* total_planting_cost / planted_area_ha if planted_area_ha > 0 else 0
cost_per_hectare(total, area_ha) ==
    IF area_ha > 0 THEN Quotient(total, area_ha) ELSE Zero

\* (mutant) labor_cost is left out of the planting total
planting_total_without_labor(costs) == costs.seed_cost + costs.fertilizer_cost + costs.lime_cost + costs.equipment_cost + costs.fuel_cost + costs.other_costs

\* (mutant) other_costs is left out of the planting total
planting_total_short(costs) ==
    costs.seed_cost + costs.fertilizer_cost + costs.lime_cost +
    costs.labor_cost + costs.equipment_cost + costs.fuel_cost

\* seed_cost + fertilizer_cost + lime_cost + labor_cost + equipment_cost +
\* fuel_cost + other_costs
planting_total(costs) ==
    costs.seed_cost + costs.fertilizer_cost + costs.lime_cost +
    costs.labor_cost + costs.equipment_cost + costs.fuel_cost +
    costs.other_costs

\* labor_cost + equipment_cost + material_cost + fuel_cost of both maintenance routes
maintenance_total(costs) ==
    costs.labor_cost + costs.equipment_cost + costs.material_cost + costs.fuel_cost

\* the sum of the seven harvest cost inputs
harvest_total(costs) ==
    costs.harvest_labor_cost + costs.harvest_equipment_cost +
    costs.harvest_fuel_cost + costs.transport_cost + costs.drying_cost +
    costs.storage_cost + costs.other_harvest_costs

\* POST /planting/add
add_planting(form) ==
    IF \/ ~ParsesOrAbsent(form, planting_cost_keys \cup {"planted_area_ha"})
       \/ form.field_id = ABSENT \/ form.crop_type = ABSENT   \* NOT NULL columns
    THEN /\ connection' = "closed"
         /\ response' = "Error adding planting record"
         /\ UNCHANGED <<requestVars, sale_locations, fields, fieldTables, plantingTables, storageTables>>
    ELSE LET planted_area_ha == FloatOr(form, "planted_area_ha", 0)
             costs == ParsedCosts(form, planting_cost_keys)
             total == planting_total(costs)
         IN /\ planting_records' = Append(planting_records,
                  [field_id |-> form.field_id, crop_type |-> form.crop_type,
                   planted_area_ha |-> planted_area_ha, costs |-> costs,
                   total_planting_cost |-> total,
                   cost_per_hectare |-> cost_per_hectare(total, planted_area_ha),
                   status |-> "Active"])
            /\ connection' = "closed"
            /\ response' = "Planting record added"
            /\ UNCHANGED <<requestVars, sale_locations, fields, fieldTables, field_maintenance, harvest_records,
                           storageTables>>

\* (mutant) only a planting that is still Active is found
PlantingFoundActive(planting_id) == planting_id \in 1..Len(planting_records) /\ planting_records[planting_id].field_id \in fields /\ planting_records[planting_id].status = "Active"

\* (mutant) the query has no JOIN with fields
PlantingFoundWithoutJoin(planting_id) == planting_id \in 1..Len(planting_records)

\* SELECT p.*, f.field_name FROM planting_records p JOIN fields f ...
\* WHERE p.planting_id = ?  returns a row
PlantingFound(planting_id) ==
    /\ planting_id \in 1..Len(planting_records)
    /\ planting_records[planting_id].field_id \in fields

\* the row both maintenance routes insert
MaintenanceRow(field_id, planting_id, form) ==
    LET costs == ParsedCosts(form, maintenance_cost_keys)
    IN [field_id |-> field_id, planting_id |-> planting_id, costs |-> costs,
        total_cost |-> maintenance_total(costs)]

\* planting_id of a maintenance row that is linked to no planting (NULL; no
\* planting has this id, AUTOINCREMENT ids start at 1)
NoPlanting == 0

\* POST /fields/<field_id>/maintenance/add ; planting_id is the optional
\* association of the form: NoPlanting or any integer
field_maintenance_add(field_id, planting_id, form) ==
    IF field_id \notin fields
    THEN /\ connection' = "closed"
         /\ response' = "Field not found!"
         /\ UNCHANGED <<requestVars, sale_locations, fields, fieldTables, plantingTables, storageTables>>
    ELSE IF ~ParsesOrAbsent(form, maintenance_cost_keys)
    THEN /\ connection' = "closed"
         /\ response' = "Error adding maintenance record"
         /\ UNCHANGED <<requestVars, sale_locations, fields, fieldTables, plantingTables, storageTables>>
    ELSE /\ field_maintenance' = Append(field_maintenance,
               MaintenanceRow(field_id, planting_id, form))
         /\ connection' = "closed"
         /\ response' = "maintenance recorded successfully"
         /\ UNCHANGED <<requestVars, sale_locations, fields, fieldTables, planting_records, harvest_records,
                        storageTables>>

\* (mutant) the new maintenance cost is added to the total_costs of the
\* harvests already recorded for the planting
add_maintenance_recomputing(planting_id, form) ==
    IF ~PlantingFound(planting_id)
    THEN /\ connection' = "closed"
         /\ response' = "Planting record not found!"
         /\ UNCHANGED <<requestVars, sale_locations, fields, fieldTables, plantingTables, storageTables>>
    ELSE IF ~ParsesOrAbsent(form, maintenance_cost_keys)
    THEN /\ connection' = "closed"
         /\ response' = "Error adding maintenance record"
         /\ UNCHANGED <<requestVars, sale_locations, fields, fieldTables, plantingTables, storageTables>>
    ELSE LET row == MaintenanceRow(planting_records[planting_id].field_id,
                                   planting_id, form)
         IN /\ field_maintenance' = Append(field_maintenance, row)
            /\ harvest_records' =
                  [i \in DOMAIN harvest_records |->
                      IF harvest_records[i].planting_id = planting_id
                      THEN [harvest_records[i] EXCEPT !.total_costs = @ + row.total_cost]
                      ELSE harvest_records[i]]
            /\ connection' = "closed"
            /\ response' = "maintenance recorded successfully"
            /\ UNCHANGED <<requestVars, sale_locations, fields, fieldTables, planting_records, storageTables>>

\* POST /maintenance/add/<planting_id>
add_maintenance(planting_id, form) ==
    IF ~PlantingFound(planting_id)
    THEN /\ connection' = "closed"
         /\ response' = "Planting record not found!"
         /\ UNCHANGED <<requestVars, sale_locations, fields, fieldTables, plantingTables, storageTables>>
    ELSE IF ~ParsesOrAbsent(form, maintenance_cost_keys)
    THEN /\ connection' = "closed"
         /\ response' = "Error adding maintenance record"
         /\ UNCHANGED <<requestVars, sale_locations, fields, fieldTables, plantingTables, storageTables>>
    ELSE /\ field_maintenance' = Append(field_maintenance,
               MaintenanceRow(planting_records[planting_id].field_id, planting_id, form))
         /\ connection' = "closed"
         /\ response' = "maintenance recorded successfully"
         /\ UNCHANGED <<requestVars, sale_locations, fields, fieldTables, planting_records, harvest_records,
                        storageTables>>

\* (mutant) the edit view overwrites the total of the row it names
edit_maintenance_updating(maintenance_id) == /\ field_maintenance' = [i \in DOMAIN field_maintenance |-> IF i = maintenance_id THEN [field_maintenance[i] EXCEPT !.total_cost = 0] ELSE field_maintenance[i]] /\ connection' = "closed" /\ response' = "Maintenance updated" /\ UNCHANGED <<requestVars, sale_locations, fields, fieldTables, planting_records, harvest_records, storageTables>>

\* GET/POST /maintenance/<maintenance_id>/edit : the view opens a connection
\* and returns nothing, which Flask answers with status 500
edit_maintenance(maintenance_id) ==
    /\ connection' = "open"
    /\ response' = "Internal Server Error"
    /\ UNCHANGED <<requestVars, sale_locations, fields, fieldTables, plantingTables, storageTables>>

\* (mutant) the maintenance total is taken over every row of the table
RECURSIVE SumAllMaintenance(_, _)
SumAllMaintenance(rows, planting_id) ==
    IF rows = <<>> THEN 0
    ELSE Head(rows).total_cost + SumAllMaintenance(Tail(rows), planting_id)

\* (SELECT SUM(total_cost) FROM field_maintenance WHERE planting_id = ?) or 0
RECURSIVE SumMaintenance(_, _)
SumMaintenance(rows, planting_id) ==
    IF rows = <<>> THEN 0
    ELSE (IF Head(rows).planting_id = planting_id THEN Head(rows).total_cost ELSE 0)
         + SumMaintenance(Tail(rows), planting_id)

\* (mutant) the premium is left out of the revenue
gross_revenue_no_premium(total_yield_tonnes, market_price, price_premium) ==
    total_yield_tonnes * market_price
\* (mutant) the operands of the subtraction are swapped
net_profit_swapped(gross, costs) == costs - gross
\* (mutant) the ratio is not scaled to a percentage
roi_fraction(net, costs) ==
    IF costs > 0 THEN Quotient(net, costs) ELSE Zero
\* (mutant) the amount is reported undivided, whatever the area
per_hectare_undivided(amount, area_ha) == Quotient(amount, 1)

gross_revenue(total_yield_tonnes, market_price, price_premium) ==
    total_yield_tonnes * (market_price + price_premium)
total_costs(total_planting_cost, maintenance_costs, total_harvest_cost) ==
    total_planting_cost + maintenance_costs + total_harvest_cost
net_profit(gross, costs) == gross - costs
roi_percent(net, costs) ==
    IF costs > 0 THEN TimesInt(Quotient(net, costs), 100) ELSE Zero
per_hectare(amount, area_ha) == IF area_ha > 0 THEN Quotient(amount, area_ha) ELSE Zero
\* (mutant) the break-even price divides the yield by the cost
break_even_price_inverted(costs, total_yield_tonnes) == IF costs > 0 THEN Quotient(total_yield_tonnes, costs) ELSE Zero

break_even_price(costs, total_yield_tonnes) ==
    IF total_yield_tonnes > 0 THEN Quotient(costs, total_yield_tonnes) ELSE Zero

\* (mutant) every harvest is filed under the first sample field
HarvestFieldIdFixed(planting) == "F001"

\* planting['field_id'], the field_id stored with the harvest
HarvestFieldId(planting) == planting.field_id

\* the harvest_records row add_harvest computes from the planting row, the
\* maintenance total read with it and the submitted form
HarvestRow(planting_id, planting, maintenance_costs, form) ==
    LET total_yield_tonnes == Float(form.total_yield_tonnes)
        harvested_area_ha ==
            FloatOr(form, "harvested_area_ha", planting.planted_area_ha)
        market_price == FloatOr(form, "market_price_per_tonne", 0)
        price_premium == FloatOr(form, "price_premium", 0)
        costs == ParsedCosts(form, harvest_cost_keys)
        harvest_cost == harvest_total(costs)
        gross == gross_revenue(total_yield_tonnes, market_price, price_premium)
        total == total_costs(planting.total_planting_cost, maintenance_costs,
                             harvest_cost)
        net == net_profit(gross, total)
    IN [planting_id |-> planting_id, field_id |-> HarvestFieldId(planting),
        harvest_date |-> form.harvest_date,
        total_yield_tonnes |-> total_yield_tonnes,
        yield_per_hectare |-> per_hectare(total_yield_tonnes, harvested_area_ha),
        harvested_area_ha |-> harvested_area_ha,
        market_price_per_tonne |-> market_price, price_premium |-> price_premium,
        costs |-> costs, total_harvest_cost |-> harvest_cost,
        gross_revenue |-> gross, total_costs |-> total, net_profit |-> net,
        profit_per_hectare |-> per_hectare(net, harvested_area_ha),
        roi_percent |-> roi_percent(net, total),
        break_even_price |-> break_even_price(total, total_yield_tonnes)]

\* (mutant) the harvested total replaces the stored quantity
StorageOverwrittenByHarvest(storage, crop_type, total_yield_tonnes, market_price, harvest_date) ==
    IF crop_type \in DOMAIN storage
    THEN UpdateStorageRow(storage, crop_type,
            [quantity_stored |-> total_yield_tonnes,
             current_market_price |-> market_price,
             last_price_update |-> harvest_date])
    ELSE storage

\* (mutant) the crop name is matched without regard to case
StorageMatchedAnyCase(storage, crop_type, total_yield_tonnes, market_price, harvest_date) ==
    LET name == IF crop_type = "wheat" THEN "Wheat" ELSE crop_type
    IN IF name \in DOMAIN storage
       THEN UpdateStorageRow(storage, name,
               [quantity_stored |-> storage[name].quantity_stored + total_yield_tonnes,
                current_market_price |-> market_price,
                last_price_update |-> harvest_date])
       ELSE storage

\* (mutant) the harvest leaves the stored price and its date as they are
StoragePriceKeptByHarvest(storage, crop_type, total_yield_tonnes, market_price, harvest_date) ==
    IF crop_type \in DOMAIN storage
    THEN UpdateStorageRow(storage, crop_type,
            [quantity_stored |-> storage[crop_type].quantity_stored + total_yield_tonnes])
    ELSE storage

\* (mutant) the UPDATE has no WHERE clause
MarkAllHarvested(plantings, planting_id) == [i \in DOMAIN plantings |-> [plantings[i] EXCEPT !.status = "Harvested"]]

\* (mutant) the planting keeps its status
StatusKept(plantings, planting_id) == plantings

\* UPDATE planting_records SET status = 'Harvested' WHERE planting_id = ?
MarkHarvested(plantings, planting_id) ==
    [plantings EXCEPT ![planting_id].status = "Harvested"]

\* UPDATE crop_storage SET quantity_stored = quantity_stored + ?, ... of add_harvest
StorageAfterHarvest(storage, crop_type, total_yield_tonnes, market_price, harvest_date) ==
    IF crop_type \in DOMAIN storage
    THEN UpdateStorageRow(storage, crop_type,
            [quantity_stored |-> storage[crop_type].quantity_stored + total_yield_tonnes,
             current_market_price |-> market_price,
             last_price_update |-> harvest_date])
    ELSE storage

\* a float() of the form raises ValueError or TypeError, or the INSERT
\* violates NOT NULL of harvest_date
HarvestFormFails(form) ==
    \/ ~Parses(form.total_yield_tonnes)
    \/ ~ParsesOrAbsent(form, harvest_cost_keys \cup
           {"harvested_area_ha", "market_price_per_tonne", "price_premium"})
    \/ form.harvest_date = ABSENT

\* POST /harvest/add/<planting_id>
add_harvest(planting_id, form) ==
    IF ~PlantingFound(planting_id)
    THEN /\ connection' = "closed"
         /\ response' = "Planting record not found!"
         /\ UNCHANGED <<requestVars, sale_locations, fields, fieldTables, plantingTables, storageTables>>
    ELSE IF HarvestFormFails(form)
    THEN \* the exception is flashed; closing the connection rolls back
         /\ connection' = "closed"
         /\ response' = "Error recording harvest"
         /\ UNCHANGED <<requestVars, sale_locations, fields, fieldTables, plantingTables, storageTables>>
    ELSE LET planting == planting_records[planting_id]
             row == HarvestRow(planting_id, planting,
                               SumMaintenance(field_maintenance, planting_id), form)
         IN /\ harvest_records' = Append(harvest_records, row)
            /\ planting_records' = MarkHarvested(planting_records, planting_id)
            /\ crop_storage' =
                  StorageAfterHarvest(crop_storage, planting.crop_type,
                      row.total_yield_tonnes, row.market_price_per_tonne,
                      row.harvest_date)
            /\ connection' = "closed"
            /\ response' = "Harvest recorded successfully"
            /\ UNCHANGED <<requestVars, sale_locations, fields, fieldTables, field_maintenance, price_history>>

(***************************************************************************)
(* add_harvest statement by statement, for requests that overlap in time.  *)
(* The reads run in autocommit mode on the committed tables.  The INSERT   *)
(* opens the implicit transaction of the connection and takes the write    *)
(* lock of the database file; the statements of the transaction are seen   *)
(* by no other connection before the commit.  A connection that finds the  *)
(* lock taken waits, and raises OperationalError (database is locked) when *)
(* its busy timeout expires.                                               *)
(***************************************************************************)
Returned(r, result) ==
    [requests EXCEPT ![r] = [pc |-> "done", result |-> result, form |-> @.form]]

\* the SELECT of the planting and the parsing and arithmetic of the form
add_harvest_begin(r, planting_id, form) ==
    /\ requests[r].pc = "idle"
    /\ IF ~PlantingFound(planting_id)
       THEN /\ requests' = [requests EXCEPT ![r] =
                   [pc |-> "done", result |-> "Planting record not found!", form |-> form]]
            /\ connection' = "closed"
            /\ response' = "Planting record not found!"
       ELSE IF HarvestFormFails(form)
       THEN /\ requests' = [requests EXCEPT ![r] =
                   [pc |-> "done", result |-> "Error recording harvest", form |-> form]]
            /\ connection' = "closed"
            /\ response' = "Error recording harvest"
       ELSE /\ requests' = [requests EXCEPT ![r] =
                   [pc |-> "insert", planting_id |-> planting_id, form |-> form,
                    crop_type |-> planting_records[planting_id].crop_type,
                    row |-> HarvestRow(planting_id, planting_records[planting_id],
                               SumMaintenance(field_maintenance, planting_id), form)]]
            /\ UNCHANGED <<response, connection>>
    /\ UNCHANGED <<transaction, orphaned, sale_locations, fields, fieldTables, plantingTables,
                   storageTables>>

\* INSERT INTO harvest_records: with the lock free the transaction begins;
\* with the lock held by another connection the busy timeout may expire
add_harvest_insert(r) ==
    /\ requests[r].pc = "insert"
    /\ IF transaction.writer = 0
       THEN /\ transaction' =
                  [writer |-> r,
                   harvest_records |-> Append(harvest_records, requests[r].row),
                   planting_records |-> planting_records,
                   crop_storage |-> crop_storage]
            /\ requests' = [requests EXCEPT ![r].pc = "status"]
            /\ UNCHANGED <<response, connection>>
       ELSE /\ requests' = Returned(r, "Error recording harvest: database is locked")
            /\ connection' = "closed"
            /\ response' = "Error recording harvest: database is locked"
            /\ UNCHANGED transaction
    /\ UNCHANGED <<orphaned, sale_locations, fields, fieldTables, plantingTables, storageTables>>

\* UPDATE planting_records SET status = 'Harvested'
add_harvest_status(r) ==
    /\ requests[r].pc = "status"
    /\ transaction' = [transaction EXCEPT !.planting_records =
                          MarkHarvested(@, requests[r].planting_id)]
    /\ requests' = [requests EXCEPT ![r].pc = "storage"]
    /\ UNCHANGED <<response, connection, orphaned, sale_locations, fields, fieldTables, plantingTables,
                   storageTables>>

\* SELECT 1 FROM crop_storage ... and UPDATE crop_storage ...
add_harvest_storage(r) ==
    /\ requests[r].pc = "storage"
    /\ transaction' = [transaction EXCEPT !.crop_storage =
           StorageAfterHarvest(@, requests[r].crop_type,
               requests[r].row.total_yield_tonnes,
               requests[r].row.market_price_per_tonne, requests[r].row.harvest_date)]
    /\ requests' = [requests EXCEPT ![r].pc = "commit"]
    /\ UNCHANGED <<response, connection, orphaned, sale_locations, fields, fieldTables, plantingTables,
                   storageTables>>

\* (mutant) only the INSERT is committed, the two UPDATEs are lost
add_harvest_commit_insert_only(r) == /\ requests[r].pc = "commit" /\ harvest_records' = transaction.harvest_records /\ transaction' = NoTransaction /\ requests' = Returned(r, "Harvest recorded successfully") /\ connection' = "closed" /\ response' = "Harvest recorded successfully" /\ UNCHANGED <<orphaned, sale_locations, fields, fieldTables, planting_records, field_maintenance, storageTables>>

\* conn.commit(), conn.close() and the success notice
add_harvest_commit(r) ==
    /\ requests[r].pc = "commit"
    /\ harvest_records' = transaction.harvest_records
    /\ planting_records' = transaction.planting_records
    /\ crop_storage' = transaction.crop_storage
    /\ transaction' = NoTransaction
    /\ requests' = Returned(r, "Harvest recorded successfully")
    /\ connection' = "closed"
    /\ response' = "Harvest recorded successfully"
    /\ UNCHANGED <<orphaned, sale_locations, fields, fieldTables, field_maintenance, price_history>>

\* a statement of the open transaction or the commit raises: the handler
\* flashes the error and conn.close() rolls the transaction back
add_harvest_except(r) ==
    /\ requests[r].pc \in {"status", "storage", "commit"}
    /\ transaction' = NoTransaction
    /\ requests' = Returned(r, "Error recording harvest")
    /\ connection' = "closed"
    /\ response' = "Error recording harvest"
    /\ UNCHANGED <<orphaned, sale_locations, fields, fieldTables, plantingTables, storageTables>>

(***************************************************************************)
(* Specification of the storage editors                                    *)
(***************************************************************************)
\* the allow-list as the specification states it
C4_AllowList ==
    {"quantity_stored", "storage_capacity", "current_market_price",
     "sale_location", "notes"}
\* crop names the requests name: one stored crop and one that has no row
StorageRequestCrops == {"Wheat", "Rye"}
\* column names the generic editor is asked to write
RequestedFieldNames == C4_AllowList \cup {"storage_id"}
\* JSON values sent for a column: for the price the stored price, another
\* price and a text; for the other numeric columns a number and a text
JsonValues(f) ==
    CASE f = "current_market_price" -> {"220", "250", "high"}
      [] f \in {"quantity_stored", "storage_capacity"} -> {"5", "high"}
      [] OTHER -> {"Oil Mill"}
EditForms ==
    [quantity_stored : {"5", "x"}, storage_capacity : {ABSENT},
     current_market_price : {"220", "250"}, sale_location : {"Oil Mill"},
     notes : {ABSENT}]

MaxPriceHistory == 2

UpdateStorageField ==
    \E c \in StorageRequestCrops, f \in RequestedFieldNames, d \in RequestDates :
        \E v \in JsonValues(f) :
            /\ update_storage_field(c, f, v, d)
            /\ Len(price_history') <= MaxPriceHistory
EditCropStorage ==
    \E c \in StorageRequestCrops, form \in EditForms, d \in RequestDates :
        /\ edit_crop_storage(c, form, d)
        /\ Len(price_history') <= MaxPriceHistory
UpdateQuantity ==
    \E c \in StorageRequestCrops, q \in {"5", ABSENT}, d \in RequestDates :
        update_quantity(c, q, d)

NextStorage == UpdateStorageField \/ EditCropStorage \/ UpdateQuantity
SpecStorage == Init /\ [][NextStorage]_vars

(***************************************************************************)
(* Specification of the planting / harvest life cycle                      *)
(***************************************************************************)
MaxPlantings == 2
MaxHarvests == 2

\* a form in which every key but the given ones is absent
FormWith(keys, given) == [k \in keys |-> IF k \in DOMAIN given THEN given[k] ELSE ABSENT]
planting_form_keys ==
    planting_cost_keys \cup {"field_id", "crop_type", "planted_area_ha"}
harvest_form_keys ==
    harvest_cost_keys \cup {"harvest_date", "total_yield_tonnes", "harvested_area_ha",
                            "market_price_per_tonne", "price_premium"}

\* plantings of the stored crop and of a crop type that differs from it in
\* case, with the itemized costs given or all left out
PlantingForms ==
    {FormWith(planting_form_keys,
         [field_id |-> "F001", crop_type |-> c, planted_area_ha |-> "10"]) :
        c \in {"Wheat", "wheat"}}
    \cup
    {FormWith(planting_form_keys,
         [field_id |-> "F001", crop_type |-> "Wheat", planted_area_ha |-> "10",
          seed_cost |-> "100", fertilizer_cost |-> "50", labor_cost |-> "30"])}
HarvestForms ==
    {FormWith(harvest_form_keys,
         [harvest_date |-> "2025-09-30", total_yield_tonnes |-> y,
          market_price_per_tonne |-> "200", price_premium |-> "10"]) :
        y \in {"0", "50", "lots"}}
    \cup
    {FormWith(harvest_form_keys,
         [harvest_date |-> "2025-09-30", total_yield_tonnes |-> "30",
          harvested_area_ha |-> "0", market_price_per_tonne |-> "250",
          transport_cost |-> "1000", drying_cost |-> "200"])}
PlantingIds == 1..MaxPlantings

AddPlanting ==
    \E form \in PlantingForms :
        Len(planting_records) < MaxPlantings /\ add_planting(form)
AddHarvest ==
    \E pid \in PlantingIds, form \in HarvestForms :
        Len(harvest_records) < MaxHarvests /\ add_harvest(pid, form)

Next == AddPlanting \/ AddHarvest
Spec == Init /\ [][Next]_vars

(***************************************************************************)
(* Specification of the cost aggregation: plantings, maintenance through   *)
(* both routes, and the harvests that total them                           *)
(***************************************************************************)
MaxCostPlantings == 2
MaxMaintenance == 2
MaxCostHarvests == 1

CostPlantingForms ==
    {FormWith(planting_form_keys,
         [field_id |-> "F001", crop_type |-> "Wheat", planted_area_ha |-> "10",
          seed_cost |-> "100", fertilizer_cost |-> "50", labor_cost |-> "30"]),
     FormWith(planting_form_keys,
         [field_id |-> "F001", crop_type |-> "Wheat", planted_area_ha |-> "10"])}
MaintenanceForms ==
    {FormWith(maintenance_cost_keys, [labor_cost |-> "30"]),
     FormWith(maintenance_cost_keys, [material_cost |-> "50", fuel_cost |-> "5"])}
CostHarvestForms ==
    {FormWith(harvest_form_keys,
         [harvest_date |-> "2025-09-30", total_yield_tonnes |-> "50",
          market_price_per_tonne |-> "200", price_premium |-> "10",
          transport_cost |-> "1000", drying_cost |-> "200"])}
\* planting ids the maintenance and harvest requests name
CostPlantingIds == {1, 2}

CostAddPlanting ==
    \E form \in CostPlantingForms :
        Len(planting_records) < MaxCostPlantings /\ add_planting(form)
CostAddMaintenance ==
    \E pid \in CostPlantingIds, form \in MaintenanceForms :
        Len(field_maintenance) < MaxMaintenance /\ add_maintenance(pid, form)
CostFieldMaintenanceAdd ==
    \E f \in {"F001", "F404"}, pid \in CostPlantingIds \cup {NoPlanting},
       form \in MaintenanceForms :
        Len(field_maintenance) < MaxMaintenance /\ field_maintenance_add(f, pid, form)
CostAddHarvest ==
    \E pid \in CostPlantingIds, form \in CostHarvestForms :
        Len(harvest_records) < MaxCostHarvests /\ add_harvest(pid, form)

NextCosts ==
    CostAddPlanting \/ CostAddMaintenance \/ CostFieldMaintenanceAdd \/ CostAddHarvest
SpecCosts == Init /\ [][NextCosts]_vars

(***************************************************************************)
(* Specification of the field routes: fields and their crop seasons,       *)
(* operations and weather events                                           *)
(***************************************************************************)
\* rows inserted into crop_seasons, field_operations and weather_events together
MaxFieldRows == 3

FieldRowsInserted ==
    sqlite_sequence["crop_seasons"] + sqlite_sequence["field_operations"] +
    sqlite_sequence["weather_events"]
\* field ids the requests name: the two sample fields
RequestFieldIds == {"F001", "F002"}
FieldRowIds == 1..MaxFieldRows

AddField ==
    \E id \in {" f003 ", "f001", ""} :
        add_field([field_id |-> id, field_name |-> "North", size_hectares |-> "10"])
DeleteField == \E f \in RequestFieldIds \cup {"F003"} : delete_field(f)
DeleteAllSampleData == delete_all_sample_data
AddCropSeason ==
    \E f \in RequestFieldIds :
        /\ FieldRowsInserted < MaxFieldRows
        /\ add_crop_season([field_id |-> f, crop_year |-> "2000"])
RecordHarvest ==
    \E id \in FieldRowIds :
        record_harvest(id, [harvest_date |-> "2025-09-30", yield_tonnes_per_ha |-> "5"])
AddWeatherEvent ==
    \E f \in RequestFieldIds :
        /\ FieldRowsInserted < MaxFieldRows
        /\ add_weather_event([field_id |-> f, damage_percent |-> ABSENT])
AddOperation ==
    \E f \in RequestFieldIds :
        /\ FieldRowsInserted < MaxFieldRows
        /\ add_operation([field_id |-> f, hours_worked |-> "2"])
EditOperation ==
    \E id \in FieldRowIds, f \in RequestFieldIds :
        edit_operation(id, [field_id |-> f, hours_worked |-> ""])
DeleteOperation == \E id \in FieldRowIds : delete_operation(id)

NextFields ==
    \/ AddField \/ DeleteField \/ DeleteAllSampleData
    \/ AddCropSeason \/ RecordHarvest \/ AddWeatherEvent
    \/ AddOperation \/ EditOperation \/ DeleteOperation
SpecFields == Init /\ [][NextFields]_vars

(***************************************************************************)
(* Specification of field deletion with records in all six tables that     *)
(* carry a field_id                                                        *)
(***************************************************************************)
\* rows in each of planting_records, field_maintenance and harvest_records
MaxOrphanPlantings == 1
\* rows inserted into crop_seasons, field_operations and weather_events together
MaxOrphanFieldRows == 1

OrphanDeleteField == \E f \in RequestFieldIds : delete_field(f)
OrphanAddCropSeason ==
    \E f \in RequestFieldIds :
        /\ FieldRowsInserted < MaxOrphanFieldRows
        /\ add_crop_season([field_id |-> f, crop_year |-> "2000"])
OrphanAddWeatherEvent ==
    \E f \in RequestFieldIds :
        /\ FieldRowsInserted < MaxOrphanFieldRows
        /\ add_weather_event([field_id |-> f, damage_percent |-> ABSENT])
OrphanAddOperation ==
    \E f \in RequestFieldIds :
        /\ FieldRowsInserted < MaxOrphanFieldRows
        /\ add_operation([field_id |-> f, hours_worked |-> "2"])
OrphanAddPlanting ==
    \E f \in RequestFieldIds :
        /\ Len(planting_records) < MaxOrphanPlantings
        /\ add_planting(FormWith(planting_form_keys,
               [field_id |-> f, crop_type |-> "Wheat", planted_area_ha |-> "10",
                seed_cost |-> "100"]))
OrphanAddMaintenance ==
    \E pid \in 1..MaxOrphanPlantings :
        /\ Len(field_maintenance) < MaxOrphanPlantings
        /\ add_maintenance(pid, FormWith(maintenance_cost_keys, [labor_cost |-> "30"]))
OrphanFieldMaintenanceAdd ==
    \E f \in RequestFieldIds :
        /\ Len(field_maintenance) < MaxOrphanPlantings
        /\ field_maintenance_add(f, NoPlanting,
               FormWith(maintenance_cost_keys, [labor_cost |-> "30"]))
OrphanHarvestForms ==
    {FormWith(harvest_form_keys,
         [harvest_date |-> "2025-09-30", total_yield_tonnes |-> "50",
          market_price_per_tonne |-> "200"])}
OrphanAddHarvest ==
    \E pid \in 1..MaxOrphanPlantings, form \in OrphanHarvestForms :
        /\ Len(harvest_records) < MaxOrphanPlantings
        /\ add_harvest(pid, form)

NextOrphans ==
    \/ OrphanDeleteField
    \/ OrphanAddCropSeason \/ OrphanAddWeatherEvent \/ OrphanAddOperation
    \/ OrphanAddPlanting \/ OrphanAddMaintenance \/ OrphanFieldMaintenanceAdd
    \/ OrphanAddHarvest
SpecOrphans == Init /\ [][NextOrphans]_vars

(***************************************************************************)
(* Specification of a field that is deleted and created again while a      *)
(* planting names it                                                       *)
(***************************************************************************)
\* rows in each of planting_records, field_maintenance and harvest_records
MaxRecreateRows == 1

RecreateAddField ==
    \E id \in {"f001", " f003 "} :
        add_field([field_id |-> id, field_name |-> "North", size_hectares |-> "10"])
RecreateDeleteField == \E f \in RequestFieldIds : delete_field(f)
\* the planting form offers the fields that exist
RecreateAddPlanting ==
    \E f \in RequestFieldIds \cap fields :
        /\ Len(planting_records) < MaxRecreateRows
        /\ add_planting(FormWith(planting_form_keys,
               [field_id |-> f, crop_type |-> "Wheat", planted_area_ha |-> "10",
                seed_cost |-> "100"]))
RecreateMaintenanceForm == FormWith(maintenance_cost_keys, [labor_cost |-> "30"])
RecreateAddMaintenance ==
    \E pid \in 1..MaxRecreateRows :
        /\ Len(field_maintenance) < MaxRecreateRows
        /\ add_maintenance(pid, RecreateMaintenanceForm)
RecreateAddHarvest ==
    \E pid \in 1..MaxRecreateRows, form \in OrphanHarvestForms :
        /\ Len(harvest_records) < MaxRecreateRows
        /\ add_harvest(pid, form)

NextRecreate ==
    \/ RecreateAddField \/ RecreateDeleteField
    \/ RecreateAddPlanting \/ RecreateAddMaintenance \/ RecreateAddHarvest
SpecRecreate == Init /\ [][NextRecreate]_vars

(***************************************************************************)
(* Specification of the itemised totals: one planting, maintenance and     *)
(* harvest form with every cost item given, and plantings without area     *)
(***************************************************************************)
\* rows in each of planting_records and field_maintenance
MaxTotalsRows == 2
\* rows in harvest_records
MaxTotalsHarvests == 1

AllPlantingCosts ==
    [seed_cost |-> "1", fertilizer_cost |-> "2", lime_cost |-> "3",
     labor_cost |-> "4", equipment_cost |-> "5", fuel_cost |-> "10",
     other_costs |-> "30", field_id |-> "F001", crop_type |-> "Wheat"]
TotalsPlantingForms ==
    {FormWith(planting_form_keys, AllPlantingCosts),
     [FormWith(planting_form_keys, AllPlantingCosts) EXCEPT !.planted_area_ha = "0"],
     [FormWith(planting_form_keys, AllPlantingCosts) EXCEPT !.planted_area_ha = "4"],
     [FormWith(planting_form_keys, AllPlantingCosts) EXCEPT !.planted_area_ha = "wide"]}
TotalsMaintenanceForms ==
    {[labor_cost |-> "1", equipment_cost |-> "2", material_cost |-> "3",
      fuel_cost |-> "4"]}
TotalsHarvestForms ==
    {FormWith(harvest_form_keys,
         [harvest_date |-> "2025-09-30", total_yield_tonnes |-> "50",
          market_price_per_tonne |-> "200", harvest_labor_cost |-> "1",
          harvest_equipment_cost |-> "2", harvest_fuel_cost |-> "3",
          transport_cost |-> "4", drying_cost |-> "5", storage_cost |-> "10",
          other_harvest_costs |-> "30"])}

TotalsAddPlanting ==
    \E form \in TotalsPlantingForms :
        Len(planting_records) < MaxTotalsRows /\ add_planting(form)
TotalsAddMaintenance ==
    \E pid \in 1..MaxTotalsRows, form \in TotalsMaintenanceForms :
        Len(field_maintenance) < MaxTotalsRows /\ add_maintenance(pid, form)
TotalsFieldMaintenanceAdd ==
    \E form \in TotalsMaintenanceForms :
        /\ Len(field_maintenance) < MaxTotalsRows
        /\ field_maintenance_add("F002", NoPlanting, form)
TotalsAddHarvest ==
    \E pid \in 1..MaxTotalsRows, form \in TotalsHarvestForms :
        Len(harvest_records) < MaxTotalsHarvests /\ add_harvest(pid, form)

NextTotals ==
    \/ TotalsAddPlanting \/ TotalsAddMaintenance \/ TotalsFieldMaintenanceAdd
    \/ TotalsAddHarvest
SpecTotals == Init /\ [][NextTotals]_vars

(***************************************************************************)
(* Specification of the routes around crop_storage: its editors, the sale  *)
(* location routes, planting, harvest and field deletion                   *)
(***************************************************************************)
\* rows in each of planting_records, harvest_records and price_history
MaxFrameRows == 1
\* location ids handed out, the one of the setup included
MaxFrameLocations == 2

FrameLocationForms == {[location_name |-> n] : n \in {" Oil Mill ", ""}}
FrameEditForm ==
    [quantity_stored |-> "5", storage_capacity |-> ABSENT,
     current_market_price |-> "250", sale_location |-> "Oil Mill", notes |-> ABSENT]

FrameUpdateStorageField ==
    \E f \in {"current_market_price", "sale_location"}, d \in RequestDates :
        /\ update_storage_field("Wheat", f,
               IF f = "current_market_price" THEN "250" ELSE "Oil Mill", d)
        /\ Len(price_history') <= MaxFrameRows
FrameEditCropStorage ==
    \E d \in RequestDates :
        /\ edit_crop_storage("Wheat", FrameEditForm, d)
        /\ Len(price_history') <= MaxFrameRows
FrameUpdateQuantity == \E d \in RequestDates : update_quantity("Wheat", "5", d)
FrameAddLocation ==
    \E form \in FrameLocationForms :
        /\ sqlite_sequence["sale_locations"] < MaxFrameLocations
        /\ add_location(form)
FrameEditLocation ==
    \E id \in 1..MaxFrameLocations, form \in FrameLocationForms :
        edit_location(id, form)
FrameDeleteLocation == \E id \in 1..MaxFrameLocations : delete_location(id)
FrameBulkAddLocations ==
    /\ sqlite_sequence["sale_locations"] < MaxFrameLocations
    /\ bulk_add_locations
FrameAddPlanting ==
    /\ Len(planting_records) < MaxFrameRows
    /\ add_planting(FormWith(planting_form_keys,
           [field_id |-> "F001", crop_type |-> "Wheat", planted_area_ha |-> "10",
            seed_cost |-> "100"]))
FrameAddHarvest ==
    \E form \in OrphanHarvestForms :
        Len(harvest_records) < MaxFrameRows /\ add_harvest(1, form)
FrameDeleteField == delete_field("F001")

NextFrame ==
    \/ FrameUpdateStorageField \/ FrameEditCropStorage \/ FrameUpdateQuantity
    \/ FrameAddLocation \/ FrameEditLocation \/ FrameDeleteLocation
    \/ FrameBulkAddLocations
    \/ FrameAddPlanting \/ FrameAddHarvest \/ FrameDeleteField
SpecFrame == Init /\ [][NextFrame]_vars

(***************************************************************************)
(* Specification of the routes around field_maintenance and price_history: *)
(* every route that inserts into them, the maintenance edit route, and the *)
(* field deletions                                                         *)
(***************************************************************************)
\* rows in each of planting_records, harvest_records and price_history
MaxAppendRows == 1
\* rows in field_maintenance
MaxAppendMaintenance == 2

AppendMaintenanceForm == FormWith(maintenance_cost_keys, [labor_cost |-> "30"])

AppendAddPlanting ==
    /\ Len(planting_records) < MaxAppendRows
    /\ add_planting(FormWith(planting_form_keys,
           [field_id |-> "F001", crop_type |-> "Wheat", planted_area_ha |-> "10",
            seed_cost |-> "100"]))
AppendAddMaintenance ==
    /\ Len(field_maintenance) < MaxAppendMaintenance
    /\ add_maintenance(1, AppendMaintenanceForm)
AppendFieldMaintenanceAdd ==
    \E field_id \in fields_init :
        /\ Len(field_maintenance) < MaxAppendMaintenance
        /\ field_maintenance_add(field_id, NoPlanting, AppendMaintenanceForm)
AppendEditMaintenance ==
    \E maintenance_id \in 1..MaxAppendMaintenance : edit_maintenance(maintenance_id)
AppendAddHarvest ==
    \E form \in OrphanHarvestForms :
        Len(harvest_records) < MaxAppendRows /\ add_harvest(1, form)
AppendDeleteField == \E field_id \in fields_init : delete_field(field_id)
AppendDeleteAllSampleData == delete_all_sample_data
AppendUpdateStorageField ==
    \E d \in RequestDates, v \in JsonValues("current_market_price") :
        /\ update_storage_field("Wheat", "current_market_price", v, d)
        /\ Len(price_history') <= MaxAppendRows
AppendEditCropStorage ==
    \E d \in RequestDates :
        /\ edit_crop_storage("Corn", FrameEditForm, d)
        /\ Len(price_history') <= MaxAppendRows

NextAppend ==
    \/ AppendAddPlanting \/ AppendAddMaintenance \/ AppendFieldMaintenanceAdd
    \/ AppendEditMaintenance \/ AppendAddHarvest
    \/ AppendDeleteField \/ AppendDeleteAllSampleData
    \/ AppendUpdateStorageField \/ AppendEditCropStorage
SpecAppend == Init /\ [][NextAppend]_vars

(***************************************************************************)
(* Specification of the worked examples: the planting with seed 100,       *)
(* fertilizer 50 and labor 30 on 10 ha and its harvest of 50 t at 200 with *)
(* premium 10 and harvest costs of 1020, next to variants of both forms    *)
(***************************************************************************)
\* rows in each of planting_records and harvest_records
MaxScenarioRows == 2

ScenarioPlanting ==
    [field_id |-> "F001", crop_type |-> "Wheat", planted_area_ha |-> "10",
     seed_cost |-> "100", fertilizer_cost |-> "50", labor_cost |-> "30"]
ScenarioHarvest ==
    [harvest_date |-> "2025-09-30", total_yield_tonnes |-> "50",
     harvested_area_ha |-> "10", market_price_per_tonne |-> "200",
     price_premium |-> "10", harvest_labor_cost |-> "1000",
     harvest_equipment_cost |-> "10", harvest_fuel_cost |-> "10"]
ScenarioAddPlanting ==
    \E form \in {FormWith(planting_form_keys, ScenarioPlanting),
                  [FormWith(planting_form_keys, ScenarioPlanting) EXCEPT
                      !.lime_cost = "0", !.equipment_cost = "0", !.fuel_cost = "0",
                      !.other_costs = "0"],
                  [FormWith(planting_form_keys, ScenarioPlanting) EXCEPT
                      !.planted_area_ha = "5"]} :
        Len(planting_records) < MaxScenarioRows /\ add_planting(form)
ScenarioAddHarvest ==
    \E planting_id \in 1..MaxScenarioRows,
       form \in {FormWith(harvest_form_keys, ScenarioHarvest),
                 [FormWith(harvest_form_keys, ScenarioHarvest) EXCEPT
                     !.price_premium = ABSENT],
                 [FormWith(harvest_form_keys, ScenarioHarvest) EXCEPT
                     !.harvested_area_ha = ABSENT]} :
        Len(harvest_records) < MaxScenarioRows /\ add_harvest(planting_id, form)

NextScenario == ScenarioAddPlanting \/ ScenarioAddHarvest
SpecScenario == Init /\ [][NextScenario]_vars

(***************************************************************************)
(* Specification of overlapping harvest submissions for plantings of the   *)
(* stored crop Wheat                                                       *)
(***************************************************************************)
\* rows in planting_records
MaxRacePlantings == 1

RaceHarvestForms ==
    {FormWith(harvest_form_keys,
         [harvest_date |-> "2025-09-30", total_yield_tonnes |-> t,
          market_price_per_tonne |-> "200"]) : t \in {"30", "50", "much"}}
RaceAddPlanting ==
    /\ Len(planting_records) < MaxRacePlantings
    /\ \A r \in RequestIds : requests[r].pc = "idle"
    /\ add_planting(FormWith(planting_form_keys,
           [field_id |-> "F001", crop_type |-> "Wheat", planted_area_ha |-> "10",
            seed_cost |-> "100"]))

NextRace ==
    \/ RaceAddPlanting
    \/ \E r \in RequestIds, planting_id \in 1..MaxRacePlantings,
          form \in RaceHarvestForms : add_harvest_begin(r, planting_id, form)
    \/ \E r \in RequestIds : add_harvest_insert(r)
    \/ \E r \in RequestIds : add_harvest_status(r)
    \/ \E r \in RequestIds : add_harvest_storage(r)
    \/ \E r \in RequestIds : add_harvest_commit(r)
    \/ \E r \in RequestIds : add_harvest_except(r)
SpecRace == Init /\ [][NextRace]_vars

(***************************************************************************)
(* Properties of the storage editors                                       *)
(***************************************************************************)
\* columns of crop_storage rows whose value differs between the two states
ChangedColumns(c) ==
    {k \in DOMAIN crop_storage[c] : crop_storage'[c][k] # crop_storage[c][k]}
C4_Rejects(c, f, v, d) ==
    (update_storage_field(c, f, v, d) /\ f \notin C4_AllowList)
        => (response' = "Invalid field" /\ UNCHANGED storageTables)

\* C4 as stated: update_storage_field rejects every field name outside the
\* allow-list with a failure result and no change to crop_storage and
\* price_history, and only a column of the allow-list is ever written.
C4_Original ==
    [][\A c \in StorageRequestCrops, f \in RequestedFieldNames, d \in RequestDates :
        \A v \in JsonValues(f) :
          /\ C4_Rejects(c, f, v, d)
          /\ update_storage_field(c, f, v, d) =>
                \A row \in DOMAIN crop_storage : ChangedColumns(row) \subseteq C4_AllowList]_vars

\* C4 amended: update_storage_field rejects every field name outside the
\* allow-list with a failure result and no change to crop_storage and
\* price_history; an accepted request writes, in the named crop's row only,
\* the named allow-list column and the updated_date timestamp.
C4_AllowListOnly ==
    [][\A c \in StorageRequestCrops, f \in RequestedFieldNames, d \in RequestDates :
        \A v \in JsonValues(f) :
          /\ C4_Rejects(c, f, v, d)
          /\ update_storage_field(c, f, v, d) =>
                \A row \in DOMAIN crop_storage :
                    /\ ChangedColumns(row) \subseteq {f, "updated_date"} \cap
                                                    (C4_AllowList \cup {"updated_date"})
                    /\ row # c => ChangedColumns(row) = {}]_vars

\* a request for a column outside the allow-list has been answered after
\* accepted requests have edited the storage
C4_Witness ==
    /\ response = "Invalid field"
    /\ crop_storage["Wheat"].notes # NULL
    /\ crop_storage["Wheat"].updated_date # SetupDate

\* the price_history rows a price edit of crop c to price p must leave
C5_Logged(c, p) ==
    IF p # crop_storage[c].current_market_price
    THEN /\ Len(price_history') = Len(price_history) + 1
         /\ SubSeq(price_history', 1, Len(price_history)) = price_history
         /\ price_history'[Len(price_history')].crop_name = c
         /\ price_history'[Len(price_history')].price = p
    ELSE price_history' = price_history

\* C5: a price update through update_storage_field (current_market_price) or
\* edit_crop_storage for an existing crop appends exactly one price_history
\* row with the new price iff the new price differs from the price stored
\* before the UPDATE is applied, and appends none for the same price; the
\* row and the new price are committed together.
C5_PriceHistoryIffChanged ==
    [][/\ \A c \in DOMAIN crop_storage, v \in JsonValues("current_market_price"),
          d \in RequestDates :
            (update_storage_field(c, "current_market_price", v, d) /\ Parses(v))
                => (C5_Logged(c, Float(v)) /\
                    crop_storage'[c].current_market_price = Float(v))
       /\ \A c \in DOMAIN crop_storage, form \in EditForms, d \in RequestDates :
            (edit_crop_storage(c, form, d) /\ EditFormParses(form))
                => (C5_Logged(c, FloatOr(form, "current_market_price", 0)) /\
                    crop_storage'[c].current_market_price =
                        FloatOr(form, "current_market_price", 0))]_vars

\* two changed prices have been logged under different sale locations, the
\* later one is the price now stored for Wheat, and the quantity has been
\* edited as well without a third row
C5_Witness ==
    /\ Len(price_history) = 2
    /\ price_history[1].sale_location # price_history[2].sale_location
    /\ price_history[2].price = crop_storage["Wheat"].current_market_price
    /\ crop_storage["Wheat"].quantity_stored = 5

(***************************************************************************)
(* Properties of the harvest submission                                    *)
(***************************************************************************)
HarvestAccepted(pid, form) ==
    add_harvest(pid, form) /\ response' = "Harvest recorded successfully"

\* C1: every successful harvest submission for a planting whose crop_type is
\* the crop_name of an existing crop_storage row leaves that row's
\* quantity_stored at its previous value plus the submitted total_yield_tonnes.
C1_QuantityIncremented ==
    [][\A pid \in PlantingIds, form \in HarvestForms :
          (HarvestAccepted(pid, form) /\
           planting_records[pid].crop_type \in DOMAIN crop_storage)
          => crop_storage'[planting_records[pid].crop_type].quantity_stored =
                crop_storage[planting_records[pid].crop_type].quantity_stored +
                Float(form.total_yield_tonnes)]_vars

\* two harvests of 50 t and 30 t of Wheat have been added to the store
C1_Witness ==
    /\ Len(harvest_records) = 2
    /\ \A i \in 1..2 : planting_records[harvest_records[i].planting_id].crop_type = "Wheat"
    /\ harvest_records[1].total_yield_tonnes = 50
    /\ harvest_records[2].total_yield_tonnes = 30
    /\ crop_storage["Wheat"].quantity_stored = 80

\* C6: a planting record is created with status Active, its status is always
\* Active or Harvested, and after a successful add_harvest against it the
\* status is Harvested.
C6_PlantingStatus ==
    /\ [](\A i \in 1..Len(planting_records) :
            planting_records[i].status \in {"Active", "Harvested"})
    /\ [][/\ Len(planting_records') > Len(planting_records)
             => planting_records'[Len(planting_records')].status = "Active"
          /\ \A pid \in PlantingIds, form \in HarvestForms :
                HarvestAccepted(pid, form) => planting_records'[pid].status = "Harvested"
         ]_vars

\* one planting has been harvested while another is still Active
C6_Witness ==
    /\ Len(planting_records) = 2
    /\ planting_records[1].status = "Active"
    /\ planting_records[2].status = "Harvested"
    /\ \E i \in 1..Len(harvest_records) : harvest_records[i].planting_id = 2

\* sum of total_cost over the maintenance rows linked to planting pid
RECURSIVE C7_LinkedCost(_, _)
C7_LinkedCost(indices, pid) ==
    IF indices = {} THEN 0
    ELSE LET i == CHOOSE x \in indices : TRUE
         IN (IF field_maintenance[i].planting_id = pid
             THEN field_maintenance[i].total_cost ELSE 0)
            + C7_LinkedCost(indices \ {i}, pid)

\* C7: the total_costs stored in a harvest record equals the planting's
\* total_planting_cost plus the sum of total_cost over the field_maintenance
\* rows whose planting_id is that planting at the time of the harvest (added
\* through either maintenance route, 0 when there are none) plus the harvest's
\* total_harvest_cost; rows linked to no planting or to another are left out.
C7_TotalCosts ==
    [][\A pid \in CostPlantingIds, form \in CostHarvestForms :
          HarvestAccepted(pid, form)
          => LET h == harvest_records'[Len(harvest_records')]
             IN h.total_costs =
                    planting_records[pid].total_planting_cost
                    + C7_LinkedCost(DOMAIN field_maintenance, pid)
                    + h.total_harvest_cost]_vars

\* a harvest of planting 1 has totalled the planting cost 180, the one linked
\* maintenance row (30) and the harvest cost 1200, leaving out a maintenance
\* row that is linked elsewhere
C7_Witness ==
    /\ Len(field_maintenance) = 2
    /\ field_maintenance[1].planting_id = 1 /\ field_maintenance[1].total_cost = 30
    /\ field_maintenance[2].planting_id # 1 /\ field_maintenance[2].total_cost = 55
    /\ Len(harvest_records) = 1
    /\ harvest_records[1].planting_id = 1
    /\ harvest_records[1].total_costs = 180 + 30 + 1200

\* C8: in every harvest record net_profit = gross_revenue - total_costs,
\* also when total_yield_tonnes is 0.
C8_NetProfit ==
    \A i \in 1..Len(harvest_records) :
        harvest_records[i].net_profit =
            harvest_records[i].gross_revenue - harvest_records[i].total_costs

\* a harvest with zero yield has been recorded at a loss of its costs
C8_Witness ==
    \E i \in 1..Len(harvest_records) :
        /\ harvest_records[i].total_yield_tonnes = 0
        /\ harvest_records[i].total_costs = 180
        /\ harvest_records[i].net_profit = -180

\* C9: in every harvest record gross_revenue =
\* total_yield_tonnes * (market_price_per_tonne + price_premium).
C9_GrossRevenue ==
    \A i \in 1..Len(harvest_records) :
        harvest_records[i].gross_revenue =
            harvest_records[i].total_yield_tonnes *
            (harvest_records[i].market_price_per_tonne + harvest_records[i].price_premium)

\* 50 t at 200 plus a premium of 10 have been recorded as 10500
C9_Witness ==
    \E i \in 1..Len(harvest_records) :
        /\ harvest_records[i].total_yield_tonnes = 50
        /\ harvest_records[i].price_premium = 10
        /\ harvest_records[i].gross_revenue = 10500

\* C10: in every harvest record roi_percent is 0 when total_costs is 0,
\* whatever net_profit is, and is net_profit / total_costs * 100 when
\* total_costs > 0.
C10_RoiPercent ==
    \A i \in 1..Len(harvest_records) :
        LET h == harvest_records[i]
        IN /\ h.total_costs = 0 => h.roi_percent = Zero
           /\ h.total_costs > 0 =>
                 /\ h.roi_percent.den > 0
                 /\ h.roi_percent.num * h.total_costs =
                        h.net_profit * 100 * h.roi_percent.den

\* one harvest without any cost and with a profit has roi_percent 0, another
\* with costs has a non-zero roi_percent
C10_Witness ==
    \E i, j \in 1..Len(harvest_records) :
        /\ harvest_records[i].total_costs = 0
        /\ harvest_records[i].net_profit > 0
        /\ harvest_records[i].roi_percent = Zero
        /\ harvest_records[j].total_costs > 0
        /\ harvest_records[j].roi_percent # Zero

(***************************************************************************)
(* Properties of field deletion                                            *)
(***************************************************************************)
DeletableFieldIds == RequestFieldIds \cup {"F003"}

\* C2: a delete_field request for an existing field F removes every row of
\* crop_seasons, field_operations and weather_events whose field_id is F and
\* the fields row of F, and leaves the rows of every other field, and every
\* other field, as they were.
C2_DeleteFieldRemovesRows ==
    [][\A f \in DeletableFieldIds :
          (f \in fields /\ delete_field(f)) =>
              /\ crop_seasons' = {r \in crop_seasons : r.field_id # f}
              /\ field_operations' = {r \in field_operations : r.field_id # f}
              /\ weather_events' = {r \in weather_events : r.field_id # f}
              /\ fields' = fields \ {f}]_vars

\* F001 has just been deleted together with a crop season of its own (season
\* ids are never reused and no other route deletes a season), while a row of
\* F002 in one of the three tables and the field F002 are still there.
C2_Witness ==
    /\ response = "Field deleted successfully!"
    /\ "F001" \notin fields /\ "F002" \in fields
    /\ Cardinality(crop_seasons) < sqlite_sequence["crop_seasons"]
    /\ \A r \in crop_seasons \cup field_operations \cup weather_events :
           r.field_id # "F001"
    /\ \E r \in crop_seasons \cup field_operations \cup weather_events :
           r.field_id = "F002"

RowsOf(table) == {table[i] : i \in DOMAIN table}

\* C3 (as stated): after a delete_field request for an existing field F no
\* row of crop_seasons, field_operations, weather_events, planting_records,
\* field_maintenance or harvest_records has field_id F.
C3_NoOrphanRows ==
    [][\A f \in RequestFieldIds :
          (f \in fields /\ delete_field(f)) =>
              /\ \A r \in crop_seasons' \cup field_operations' \cup weather_events' :
                     r.field_id # f
              /\ \A r \in RowsOf(planting_records') \cup RowsOf(field_maintenance')
                              \cup RowsOf(harvest_records') :
                     r.field_id # f]_vars

(***************************************************************************)
(* Properties of the itemised totals and of the zero guards                *)
(***************************************************************************)
\* q is the quotient a / b of a divisor b > 0
IsQuotient(q, a, b) == q.den > 0 /\ q.num * b = a * q.den

\* C11: every planting record has cost_per_hectare 0 when planted_area_ha is
\* 0 and total_planting_cost / planted_area_ha when planted_area_ha > 0, and
\* a planting form that is otherwise accepted is accepted with area 0 too.
C11_CostPerHectare ==
    /\ [](\A i \in 1..Len(planting_records) :
            LET p == planting_records[i]
            IN /\ p.planted_area_ha = 0 => p.cost_per_hectare = Zero
               /\ p.planted_area_ha > 0 =>
                     IsQuotient(p.cost_per_hectare, p.total_planting_cost,
                                p.planted_area_ha))
    /\ [][\A form \in TotalsPlantingForms :
            (add_planting(form) /\ form.planted_area_ha \in {"0", ABSENT})
                => /\ response' = "Planting record added"
                   /\ Len(planting_records') = Len(planting_records) + 1]_vars

\* a planting of 55 on 4 ha has been stored with 55/4 per hectare, and one
\* of 55 on no area with cost_per_hectare 0
C11_Witness ==
    /\ response = "Planting record added"
    /\ Len(planting_records) = 2
    /\ planting_records[1].planted_area_ha = 4
    /\ planting_records[1].cost_per_hectare = Quotient(55, 4)
    /\ planting_records[2].planted_area_ha = 0
    /\ planting_records[2].total_planting_cost = 55
    /\ planting_records[2].cost_per_hectare = Zero

\* C12: total_planting_cost is the sum of the seven planting cost items, the
\* total_cost of a maintenance row of either route is the sum of its four
\* items, and total_harvest_cost is the sum of the seven harvest cost items.
C12_TotalsAreSums ==
    /\ \A i \in 1..Len(planting_records) :
          planting_records[i].total_planting_cost =
              SumOver(planting_records[i].costs, planting_cost_keys)
    /\ \A i \in 1..Len(field_maintenance) :
          field_maintenance[i].total_cost =
              SumOver(field_maintenance[i].costs, maintenance_cost_keys)
    /\ \A i \in 1..Len(harvest_records) :
          harvest_records[i].total_harvest_cost =
              SumOver(harvest_records[i].costs, harvest_cost_keys)

\* a planting, a maintenance row of each route and a harvest with every item
\* given have been stored with the totals 55, 10, 10 and 55
C12_Witness ==
    /\ Len(planting_records) >= 1 /\ planting_records[1].total_planting_cost = 55
    /\ planting_records[1].costs.other_costs = 30
    /\ Len(field_maintenance) = 2
    /\ field_maintenance[1].planting_id = 1 /\ field_maintenance[1].total_cost = 10
    /\ field_maintenance[2].planting_id = NoPlanting
    /\ field_maintenance[2].total_cost = 10
    /\ Len(harvest_records) >= 1 /\ harvest_records[1].total_harvest_cost = 55

\* C13: in every harvest record yield_per_hectare and profit_per_hectare are
\* 0 when harvested_area_ha is 0 and break_even_price is 0 when
\* total_yield_tonnes is 0, otherwise each is the plain quotient; a harvest
\* form with area 0 or yield 0 for an existing planting still creates the
\* harvest record.
C13_ZeroGuards ==
    /\ [](\A i \in 1..Len(harvest_records) :
            LET h == harvest_records[i]
            IN /\ h.harvested_area_ha = 0 =>
                     (h.yield_per_hectare = Zero /\ h.profit_per_hectare = Zero)
               /\ h.harvested_area_ha > 0 =>
                     /\ IsQuotient(h.yield_per_hectare, h.total_yield_tonnes,
                                   h.harvested_area_ha)
                     /\ IsQuotient(h.profit_per_hectare, h.net_profit,
                                   h.harvested_area_ha)
               /\ h.total_yield_tonnes = 0 => h.break_even_price = Zero
               /\ h.total_yield_tonnes > 0 =>
                     IsQuotient(h.break_even_price, h.total_costs,
                                h.total_yield_tonnes))
    /\ [][\A pid \in PlantingIds, form \in HarvestForms :
            (/\ add_harvest(pid, form) /\ PlantingFound(pid)
             /\ form.total_yield_tonnes = "0" \/ form.harvested_area_ha = "0")
            => /\ response' = "Harvest recorded successfully"
               /\ Len(harvest_records') = Len(harvest_records) + 1]_vars

\* one harvest on no area has been recorded with a profit and 0 per hectare,
\* another without yield at a cost and break_even_price 0
C13_Witness ==
    \E i, j \in 1..Len(harvest_records) :
        /\ harvest_records[i].harvested_area_ha = 0
        /\ harvest_records[i].total_yield_tonnes = 30
        /\ harvest_records[i].net_profit # 0
        /\ harvest_records[i].yield_per_hectare = Zero
        /\ harvest_records[i].profit_per_hectare = Zero
        /\ harvest_records[i].break_even_price # Zero
        /\ harvest_records[j].total_yield_tonnes = 0
        /\ harvest_records[j].total_costs > 0
        /\ harvest_records[j].break_even_price = Zero
        /\ harvest_records[j].profit_per_hectare # Zero

(***************************************************************************)
(* Properties of the harvest reconciliation with the crop storage          *)
(***************************************************************************)
\* C14: a successful harvest leaves every crop_storage row other than the one
\* whose crop_name equals the planting's crop_type (case-sensitively) as it
\* was and adds or removes no row; when no row matches, crop_storage is
\* unchanged and a valid submission still succeeds: the harvest record is
\* inserted and the planting is marked Harvested.
C14_OnlyMatchingRow ==
    [][\A pid \in PlantingIds, form \in HarvestForms :
          LET crop_type == planting_records[pid].crop_type
          IN /\ HarvestAccepted(pid, form) =>
                   /\ DOMAIN crop_storage' = DOMAIN crop_storage
                   /\ \A c \in DOMAIN crop_storage :
                          c # crop_type => crop_storage'[c] = crop_storage[c]
             /\ (/\ add_harvest(pid, form) /\ PlantingFound(pid)
                 /\ Parses(form.total_yield_tonnes)
                 /\ crop_type \notin DOMAIN crop_storage)
                => /\ crop_storage' = crop_storage
                   /\ response' = "Harvest recorded successfully"
                   /\ Len(harvest_records') = Len(harvest_records) + 1
                   /\ planting_records'[pid].status = "Harvested"]_vars

\* a planting of Wheat and a planting of wheat have both been harvested:
\* only the first harvest has reached the Wheat row, and the Corn row is as
\* it was set up
C14_Witness ==
    /\ Len(planting_records) = 2 /\ Len(harvest_records) = 2
    /\ planting_records[1].crop_type = "Wheat" /\ planting_records[2].crop_type = "wheat"
    /\ planting_records[1].status = "Harvested" /\ planting_records[2].status = "Harvested"
    /\ \E i, j \in 1..2 :
          /\ harvest_records[i].planting_id = 1 /\ harvest_records[j].planting_id = 2
          /\ harvest_records[j].total_yield_tonnes > 0
          /\ crop_storage["Wheat"].quantity_stored = harvest_records[i].total_yield_tonnes
    /\ crop_storage["Corn"] = crop_storage_init["Corn"]
    /\ DOMAIN crop_storage = {"Wheat", "Corn"}

\* C15: after a successful harvest that matches a crop_storage row, the row's
\* current_market_price is the submitted market_price_per_tonne, without the
\* price premium, and its last_price_update is the submitted harvest_date.
C15_PriceOverwritten ==
    [][\A pid \in PlantingIds, form \in HarvestForms :
          (HarvestAccepted(pid, form) /\
           planting_records[pid].crop_type \in DOMAIN crop_storage)
          => LET row == crop_storage'[planting_records[pid].crop_type]
             IN /\ row.current_market_price =
                       FloatOr(form, "market_price_per_tonne", 0)
                /\ row.last_price_update = form.harvest_date]_vars

\* a harvest sold at 200 with a premium of 10 has set the Wheat price to 200
\* and the date of the price to the harvest date
C15_Witness ==
    /\ \E i \in 1..Len(harvest_records) :
          /\ planting_records[harvest_records[i].planting_id].crop_type = "Wheat"
          /\ harvest_records[i].market_price_per_tonne = 200
          /\ harvest_records[i].price_premium = 10
          /\ crop_storage["Wheat"].last_price_update = harvest_records[i].harvest_date
    /\ crop_storage["Wheat"].current_market_price = 200
    /\ crop_storage["Wheat"].last_price_update # crop_storage_init["Wheat"].last_price_update

\* C16 (as stated): every step that changes the current_market_price of a
\* crop_storage row to a different value, the harvest reconciliation of
\* add_harvest included, appends a price_history row for that crop and the
\* new price in the same request.
C16_PriceChangeLogged ==
    [][\A c \in DOMAIN crop_storage :
          crop_storage'[c].current_market_price # crop_storage[c].current_market_price
          => /\ Len(price_history') = Len(price_history) + 1
             /\ price_history'[Len(price_history')].crop_name = c
             /\ price_history'[Len(price_history')].price =
                    crop_storage'[c].current_market_price]_vars

(***************************************************************************)
(* Properties of the stored harvest records                                *)
(***************************************************************************)
\* the financial summary of a harvest row
FinancialSummary(h) ==
    <<h.gross_revenue, h.total_costs, h.net_profit, h.profit_per_hectare,
      h.roi_percent, h.break_even_price>>

\* C17: no step changes the gross_revenue, total_costs, net_profit,
\* profit_per_hectare, roi_percent or break_even_price of a harvest record
\* that exists, in particular not a maintenance record added to its planting
\* through either route after the harvest.
C17_SummaryNotRecomputed ==
    [][/\ Len(harvest_records') >= Len(harvest_records)
       /\ \A i \in 1..Len(harvest_records) :
             FinancialSummary(harvest_records'[i]) =
                 FinancialSummary(harvest_records[i])]_vars

\* a maintenance row has been linked to planting 1 after its harvest: the
\* total_costs of the harvest is less than what the costs add up to now
C17_Witness ==
    /\ response = "maintenance recorded successfully"
    /\ Len(harvest_records) = 1
    /\ harvest_records[1].planting_id = 1
    /\ harvest_records[1].total_costs <
           planting_records[1].total_planting_cost
           + C7_LinkedCost(DOMAIN field_maintenance, 1)
           + harvest_records[1].total_harvest_cost

\* C18: in every state each harvest record names a planting record that
\* exists and carries that planting's field_id; add_harvest for a planting_id
\* without a planting record inserts no harvest record and changes no table.
C18_HarvestReferences ==
    /\ [](\A i \in 1..Len(harvest_records) :
            /\ harvest_records[i].planting_id \in 1..Len(planting_records)
            /\ harvest_records[i].field_id =
                   planting_records[harvest_records[i].planting_id].field_id)
    /\ [][\A pid \in 1..MaxOrphanPlantings :
            (/\ pid \notin 1..Len(planting_records)
             /\ \E form \in OrphanHarvestForms : add_harvest(pid, form))
            => /\ response' = "Planting record not found!"
               /\ UNCHANGED <<fields, fieldTables, plantingTables, storageTables>>]_vars

\* a harvest of the planting on F002 has been recorded under F002, and the
\* field has since been deleted while planting and harvest stay
C18_Witness ==
    /\ Len(harvest_records) = 1 /\ Len(planting_records) = 1
    /\ harvest_records[1].planting_id = 1
    /\ harvest_records[1].field_id = "F002"
    /\ planting_records[1].field_id = "F002"
    /\ "F002" \notin fields

C20_Original ==
    /\ [](DOMAIN crop_storage = DOMAIN crop_storage_init)
    /\ [][crop_storage' # crop_storage
            => \/ FrameUpdateStorageField \/ FrameEditCropStorage
               \/ FrameUpdateQuantity \/ FrameAddHarvest]_vars

\* C20 (amended): crop_storage keeps one row for each crop name and no
\* operation adds or removes a row; a row changes only in a step of
\* edit_crop_storage, update_quantity, update_storage_field, add_harvest or
\* edit_location; an edit_location that gives a location a new name writes
\* that name into sale_location of exactly the rows whose sale_location was
\* the old name and changes no other column and no other row.
C20_StorageFrame ==
    /\ [](DOMAIN crop_storage = DOMAIN crop_storage_init)
    /\ [][crop_storage' # crop_storage
            => \/ FrameUpdateStorageField \/ FrameEditCropStorage
               \/ FrameUpdateQuantity \/ FrameAddHarvest
               \/ FrameEditLocation]_vars
    /\ [][\A id \in 1..MaxFrameLocations, form \in FrameLocationForms :
            (edit_location(id, form) /\ response' = "Location updated successfully!")
            => \E old \in LocationRows(id) :
                 \A c \in DOMAIN crop_storage :
                    crop_storage'[c] =
                       IF crop_storage[c].sale_location = old.location_name
                       THEN [crop_storage[c] EXCEPT
                               !.sale_location = location_name_strip[form.location_name]]
                       ELSE crop_storage[c]]_vars

\* location 1 has been renamed from Grain Elevator to Oil Mill, and the Corn
\* row, which no storage editor was called for, now names Oil Mill
C20_Witness ==
    /\ [location_id |-> 1, location_name |-> "Oil Mill"] \in sale_locations
    /\ crop_storage["Corn"].sale_location = "Oil Mill"
    /\ response = "Location updated successfully!"

C22_ConnectionsClosed == connection # "open"

\* C23: an add_field whose field_id, trimmed and upper-cased, is the id of an
\* existing field (the rest of the form being valid) is answered with the
\* 'already exists' notice and leaves the fields table, which is keyed by
\* field_id, as it is.
C23_DuplicateFieldRejected ==
    [][\A id \in {"f001", " f003 "} :
          LET upper == IF id = "f001" THEN "F001" ELSE "F003"
          IN (/\ upper \in fields
              /\ add_field([field_id |-> id, field_name |-> "North",
                            size_hectares |-> "10"]))
             => /\ response' = "Field ID already exists!"
                /\ fields' = fields]_vars

\* F003 was added from the submitted id ' f003 ' and a later submission of an
\* existing id has been turned away
C23_Witness ==
    /\ fields = {"F001", "F002", "F003"}
    /\ response = "Field ID already exists!"

\* C24: a harvest with total yield 50, harvested area 10, market price 200,
\* price premium 10 and total costs 1200 is stored with gross_revenue 10500,
\* net_profit 9300, roi_percent 775 and break_even_price 24.
C24_HarvestScenario ==
    \A i \in 1..Len(harvest_records) :
        LET h == harvest_records[i]
        IN (/\ h.total_yield_tonnes = 50 /\ h.harvested_area_ha = 10
            /\ h.market_price_per_tonne = 200 /\ h.price_premium = 10
            /\ h.total_costs = 1200)
           => /\ h.gross_revenue = 10500
              /\ h.net_profit = 9300
              /\ h.roi_percent = [num |-> 775, den |-> 1]
              /\ h.break_even_price = [num |-> 24, den |-> 1]

\* the harvest of the example has been stored: costs of 180 for the planting
\* and 1020 for the harvest make the total costs of 1200
C24_Witness ==
    /\ Len(harvest_records) >= 1
    /\ harvest_records[1].total_yield_tonnes = 50
    /\ harvest_records[1].harvested_area_ha = 10
    /\ harvest_records[1].market_price_per_tonne = 200
    /\ harvest_records[1].price_premium = 10
    /\ harvest_records[1].total_harvest_cost = 1020
    /\ harvest_records[1].total_costs = 1200
    /\ harvest_records[1].gross_revenue = 10500

\* C25: a planting submitted with seed cost 100, fertilizer cost 50, labor
\* cost 30, every other cost item 0 and planted area 10 is stored with
\* total_planting_cost 180 and cost_per_hectare 18.
C25_PlantingScenario ==
    \A i \in 1..Len(planting_records) :
        LET p == planting_records[i]
        IN (/\ p.costs = [k \in planting_cost_keys |->
                             CASE k = "seed_cost" -> 100
                               [] k = "fertilizer_cost" -> 50
                               [] k = "labor_cost" -> 30
                               [] OTHER -> 0]
            /\ p.planted_area_ha = 10)
           => /\ p.total_planting_cost = 180
              /\ p.cost_per_hectare = [num |-> 18, den |-> 1]

\* the planting of the example has been stored twice, once with the other
\* cost items left out of the form and once with them submitted as 0
C25_Witness ==
    /\ Len(planting_records) = 2
    /\ \A i \in 1..2 :
          /\ planting_records[i].costs.seed_cost = 100
          /\ planting_records[i].costs.fertilizer_cost = 50
          /\ planting_records[i].costs.labor_cost = 30
          /\ planting_records[i].costs.other_costs = 0
          /\ planting_records[i].planted_area_ha = 10
          /\ planting_records[i].total_planting_cost = 180
    /\ response = "Planting record added"

\* C26: every row of planting_records, field_maintenance, weather_events,
\* crop_seasons and field_operations has the field_id of a field that exists.
C26_FieldReferences ==
    \A r \in RowsOf(planting_records) \cup RowsOf(field_maintenance)
              \cup weather_events \cup crop_seasons \cup field_operations :
        r.field_id \in fields

\* C27: add_harvest is all-or-nothing.  The harvest_records insert, the
\* planting status update and the crop_storage update become visible in one
\* step, the commit: whenever a harvest row appears, its planting is
\* Harvested and the stored quantity of its crop has grown by its total in
\* the same step, and crop_storage changes in no other step; a submission
\* that returns with an error (unparsable input, a failing statement, a
\* lock that is not obtained) leaves all three tables as they were.
C27_AllOrNothing ==
    [][/\ harvest_records' # harvest_records
          => LET n == Len(harvest_records')
                 h == harvest_records'[n]
             IN /\ n = Len(harvest_records) + 1
                /\ SubSeq(harvest_records', 1, n - 1) = harvest_records
                /\ planting_records'[h.planting_id].status = "Harvested"
                /\ crop_storage'["Wheat"].quantity_stored =
                      crop_storage["Wheat"].quantity_stored + h.total_yield_tonnes
       /\ (\/ crop_storage' # crop_storage
           \/ \E i \in 1..Len(planting_records) :
                 planting_records'[i].status # planting_records[i].status)
          => harvest_records' # harvest_records
       /\ \A r \in RequestIds :
             (/\ requests[r].pc # "done" /\ requests'[r].pc = "done"
              /\ requests'[r].result # "Harvest recorded successfully")
             => UNCHANGED <<harvest_records, planting_records, crop_storage>>]_vars

\* a submission with a well-formed form has run its INSERT and then failed:
\* no harvest row is stored, the planting is Active, nothing was added
C27_Witness ==
    /\ \E r \in RequestIds :
          /\ requests[r].pc = "done"
          /\ requests[r].result = "Error recording harvest"
          /\ ~HarvestFormFails(requests[r].form)
    /\ \A r \in RequestIds : requests[r].pc \in {"idle", "done"}
    /\ Len(planting_records) = 1 /\ planting_records[1].status = "Active"
    /\ harvest_records = <<>>
    /\ crop_storage["Wheat"].quantity_stored = 0

\* sum of total_yield_tonnes over the first n harvest records whose planting
\* has crop type c
RECURSIVE HarvestedTotal(_, _)
HarvestedTotal(c, n) ==
    IF n = 0 THEN 0
    ELSE HarvestedTotal(c, n - 1) +
         (IF planting_records[harvest_records[n].planting_id].crop_type = c
          THEN harvest_records[n].total_yield_tonnes ELSE 0)

\* C28: add_harvest does not look at the planting's status: a well-formed
\* submission for a planting that is already Harvested stores another harvest
\* record; and with no storage-edit action in the run, quantity_stored of each
\* crop_storage row is its initial quantity plus the sum of total_yield_tonnes
\* over the harvest records whose planting has that crop type.
C28_RepeatedHarvests ==
    /\ [](\A c \in DOMAIN crop_storage :
            crop_storage[c].quantity_stored =
               crop_storage_init[c].quantity_stored
               + HarvestedTotal(c, Len(harvest_records)))
    /\ [][\A pid \in PlantingIds, form \in HarvestForms :
            (/\ pid \in 1..Len(planting_records)
             /\ planting_records[pid].field_id \in fields
             /\ planting_records[pid].status = "Harvested"
             /\ ~HarvestFormFails(form)
             /\ add_harvest(pid, form))
            => /\ Len(harvest_records') = Len(harvest_records) + 1
               /\ response' = "Harvest recorded successfully"]_vars

\* the Wheat planting 1 has been harvested twice, 50 t and 30 t, and both
\* totals are in storage
C28_Witness ==
    /\ Len(harvest_records) = 2
    /\ harvest_records[1].planting_id = 1 /\ harvest_records[2].planting_id = 1
    /\ planting_records[1].crop_type = "Wheat"
    /\ harvest_records[1].total_yield_tonnes = 50
    /\ harvest_records[2].total_yield_tonnes = 30
    /\ crop_storage["Wheat"].quantity_stored = 80

\* C29: in every state a planting record has status Harvested exactly when
\* at least one harvest record references it, and no step takes a Harvested
\* planting back to Active.
C29_HarvestedIffReferenced ==
    /\ [](\A pid \in 1..Len(planting_records) :
            /\ planting_records[pid].status \in {"Active", "Harvested"}
            /\ planting_records[pid].status = "Harvested"
                  <=> \E i \in 1..Len(harvest_records) :
                         harvest_records[i].planting_id = pid)
    /\ [][\A pid \in 1..Len(planting_records) :
            planting_records[pid].status = "Harvested"
            => planting_records'[pid].status = "Harvested"]_vars

\* of two plantings the second has been harvested twice and is Harvested,
\* the first has no harvest record and is Active
C29_Witness ==
    /\ Len(planting_records) = 2
    /\ planting_records[1].status = "Active"
    /\ planting_records[2].status = "Harvested"
    /\ Len(harvest_records) = 2
    /\ \A i \in 1..2 : harvest_records[i].planting_id = 2

\* the field a planting names is not in fields
FieldMissing(pid) ==
    /\ pid \in 1..Len(planting_records)
    /\ planting_records[pid].field_id \notin fields

\* a harvest or maintenance submission for planting pid
SubmissionFor(pid) ==
    \/ \E form \in OrphanHarvestForms : add_harvest(pid, form)
    \/ add_maintenance(pid, RecreateMaintenanceForm)

\* the submission is answered with 'Planting record not found!' and no table
\* changes
TurnedAway ==
    /\ response' = "Planting record not found!"
    /\ UNCHANGED <<fields, fieldTables, plantingTables, storageTables, sale_locations>>

====
